---- MODULE Spec2Model ----
(***************************************************************************)
(* Stock ledger and undo engine of the inventory manager (src/routes.py,   *)
(* src/models.py, src/app.py).  Each request handler is one atomic action: *)
(* it works on a session (a copy of the tables), and the session is        *)
(* installed on commit and dropped on rollback or early return.            *)
(***************************************************************************)
EXTENDS Integers, FiniteSets, Sequences, TLC

\* ---------------------------------------------------------------- bounds
MaxOps == 2          \* requests other than undo per behaviour
MaxUndos == 2        \* undo requests per behaviour
MaxQty == 2          \* largest quantity typed into a form
MaxBagOps == 3       \* requests other than undo per behaviour of BagSpec
MaxCalls == 3        \* method calls on one Item per behaviour of StockSpec
MaxBoxes == 2        \* most boxes handed to one add_stock call
MaxLoose == 3        \* most loose pieces handed to one add_stock call

\* ------------------------------------------------------------ vocabulary
NoId == 0            \* Python None for an id / a query that found no row
None == "None"       \* Python None for a string column
Users == {1, 2}      \* current_user.id
CabinetName == "Cabinet"
Names == {"Normal Saline 0.9%"}
NewNames == {"Tourniquet"}               \* a name no Product carries yet
Types == {"IV Fluids"}
Sizes == {"500ml", "1L"}
Patients == {"patient"}
FormQty == 0..MaxQty               \* quantities typed when moving stock
AddQty == {-1} \cup (1..MaxQty)    \* quantities typed when adding stock: int()
                                   \* of a form field accepts a sign
Expiry == "2027-01"
CsvBags == {"Cabinet", "Emergency Bag 1"}    \* the bag column of a CSV row

VARIABLES
    items,                 \* Item rows
    bags,                  \* Bag rows
    products,              \* Product rows
    bag_minimums,          \* BagMinimum rows
    movements,             \* MovementHistory rows
    undo_actions,          \* UndoAction rows
    permanent_deletions,   \* PermanentDeletion rows
    audits,                \* InventoryAudit rows
    seq,                   \* next primary key of every table
    clock,                 \* datetime.utcnow()
    last,                  \* the last request and its outcome
    prev,                  \* the request before it
    pre,                   \* the tables before the last request
    pre2,                  \* the tables before the request before it
    nops,                  \* requests other than undo made
    nundos,                \* undo requests made
    inflight,              \* requests that have read an Item and not committed
    batch                  \* one Item object driven through its stock methods

vars == <<items, bags, products, bag_minimums, movements, undo_actions,
          permanent_deletions, audits, seq, clock, last, prev, pre, pre2, nops,
          nundos, inflight, batch>>

\* The tables as one value: what a request's session starts from.
DB == [items |-> items, bags |-> bags, products |-> products,
       bag_minimums |-> bag_minimums, movements |-> movements,
       undo_actions |-> undo_actions,
       permanent_deletions |-> permanent_deletions, audits |-> audits,
       seq |-> seq]

\* ------------------------------------------------------------------ rows
NewItem(id, name, type, brand, size, quantity, expiry, bag_id, product_id) ==
    [id |-> id, name |-> name, type |-> type, brand |-> brand, size |-> size,
     quantity |-> quantity, expiry_date |-> expiry, bag_id |-> bag_id,
     product_id |-> product_id]

\* A MovementHistory row with its two bag columns exchanged.
NewMovementSwapped(id, item, quantity, movement_type, from_bag, to_bag, notes, patient, t) ==
    [id |-> id, item_name |-> item.name, item_type |-> item.type,
     item_size |-> item.size, quantity |-> quantity,
     movement_type |-> movement_type, from_bag |-> to_bag, to_bag |-> from_bag,
     notes |-> notes, patient_name |-> patient, timestamp |-> t]

NewMovement(id, item, quantity, movement_type, from_bag, to_bag, notes, patient, t) ==
    [id |-> id, item_name |-> item.name, item_type |-> item.type,
     item_size |-> item.size, quantity |-> quantity,
     movement_type |-> movement_type, from_bag |-> from_bag, to_bag |-> to_bag,
     notes |-> notes, patient_name |-> patient, timestamp |-> t]

\* The JSON payload of an UndoAction; a key an action type does not write is
\* left at its empty value.
NoData ==
    [item_id |-> NoId, from_bag_id |-> NoId, to_bag_id |-> NoId, quantity |-> 0,
     item_name |-> None, item_type |-> None, item_brand |-> None,
     item_size |-> None, item_expiry_date |-> None, product_id |-> NoId,
     existing_item_id |-> NoId, new_item_created |-> FALSE,
     source_item_deleted |-> FALSE, original_source_quantity |-> 0,
     bag_id |-> NoId, bag_name |-> None, bag_description |-> None,
     bag_location |-> None, patient_name |-> None, product_created |-> FALSE,
     transferred_items |-> {}, deleted_minimums |-> {}, audit_id |-> NoId,
     changes |-> <<>>, transfers |-> <<>>]

NewUndoAction(id, action_type, data, user_id, t) ==
    [id |-> id, action_type |-> action_type, action_data |-> data,
     user_id |-> user_id, timestamp |-> t, is_used |-> FALSE]

\* --------------------------------------------------------------- queries
\* Query.get(id): the row, as a set of at most one row.
Get(rows, id) == {r \in rows : r.id = id}

\* Query.first() with no ORDER BY: any matching row, or None.
FirstId(rows) == IF rows = {} THEN {NoId} ELSE {r.id : r \in rows}

Row(rows, id) == CHOOSE r \in rows : r.id = id

SameKey(i, name, type, brand, size, expiry) ==
    /\ i.name = name /\ i.type = type /\ i.brand = brand
    /\ i.size = size /\ i.expiry_date = expiry

\* A variant of the merge that overwrites the quantity held (for sensitivity).
OverwriteQuantity(rows, id, q) ==
    {IF r.id = id THEN [r EXCEPT !.quantity = q] ELSE r : r \in rows}

\* A variant of session.delete that keeps the row (for sensitivity).
KeepRow(rows, id) == rows

\* A variant of the stock check that lets one unit too many through (for
\* sensitivity).
InsufficientOffByOne(quantity, item) == quantity > item.quantity + 1

SetQuantity(rows, id, q) ==
    {IF r.id = id THEN [r EXCEPT !.quantity = q] ELSE r : r \in rows}

AddQuantity(rows, id, q) ==
    {IF r.id = id THEN [r EXCEPT !.quantity = r.quantity + q] ELSE r : r \in rows}

Delete(rows, id) == {r \in rows : r.id # id}

\* The stock check of handle_transfer, handle_usage and handle_wastage.
Insufficient(quantity, item) == quantity > item.quantity

\* The total quantity of a set of rows (func.sum(Item.quantity)).
RECURSIVE SumQty(_)
SumQty(rows) ==
    IF rows = {} THEN 0
    ELSE LET r == CHOOSE x \in rows : TRUE
         IN  r.quantity + SumQty(rows \ {r})

BagName(s, bag_id) == (CHOOSE b \in s.bags : b.id = bag_id).name

\* A handler's outcome: the session it leaves, what it reported, the UndoAction
\* it created or applied, and whether an undo skipped a row it could not find.
Outcome(s, result, action, skipped) ==
    [s |-> s, result |-> result, action |-> action, skipped |-> skipped]

Rejected(s, result) == Outcome(s, result, NoId, FALSE)

\* ------------------------------------------------------------- transfer
\* handle_transfer once its checks have passed: merge into `existing` or create
\* the destination row, take from the source and delete it at zero, log the
\* movement and record the UndoAction.
transfer_apply(s, u, item, to_bag, quantity, existing, t) ==
    LET from_bag == Row(s.bags, item.bag_id)
        dest == IF existing # NoId
                THEN AddQuantity(s.items, existing, quantity)
                ELSE s.items \cup
                     {NewItem(s.seq.item, item.name, item.type, item.brand,
                              item.size, quantity, item.expiry_date, to_bag.id,
                              item.product_id)}
        left == item.quantity - quantity
        src == IF left <= 0 THEN Delete(dest, item.id)
               ELSE SetQuantity(dest, item.id, left)
        movement == NewMovement(s.seq.movement, item, quantity, "transfer",
                                from_bag.name, to_bag.name, "Transferred", None, t)
        data == [NoData EXCEPT
                    !.item_id = item.id, !.from_bag_id = from_bag.id,
                    !.to_bag_id = to_bag.id, !.quantity = quantity,
                    !.item_name = item.name, !.item_type = item.type,
                    !.item_brand = item.brand, !.item_size = item.size,
                    !.item_expiry_date = item.expiry_date,
                    !.product_id = item.product_id,
                    !.existing_item_id = existing,
                    !.new_item_created = (existing = NoId),
                    !.source_item_deleted = (left <= 0),
                    !.original_source_quantity = left + quantity]
        undo == NewUndoAction(s.seq.undo, "transfer", data, u, t)
    IN  Outcome([s EXCEPT !.items = src,
                          !.movements = @ \cup {movement},
                          !.undo_actions = @ \cup {undo},
                          !.seq = [@ EXCEPT
                                     !.item = IF existing = NoId THEN @ + 1 ELSE @,
                                     !.movement = @ + 1,
                                     !.undo = @ + 1]],
                "ok", undo.id, FALSE)

handle_transfer(s, u, item_id, to_bag_id, quantity, t) ==
    IF item_id = NoId \/ to_bag_id = NoId \/ quantity <= 0
    THEN {Rejected(s, "invalid")}
    ELSE IF Get(s.items, item_id) = {} \/ Get(s.bags, to_bag_id) = {}
    THEN {Rejected(s, "error")}
    ELSE LET item == Row(s.items, item_id)
             to_bag == Row(s.bags, to_bag_id)
         IN  IF Insufficient(quantity, item) THEN {Rejected(s, "insufficient")}
             ELSE IF item.bag_id = to_bag_id THEN {Rejected(s, "same_bag")}
             ELSE IF Get(s.bags, item.bag_id) = {} THEN {Rejected(s, "error")}
             ELSE {transfer_apply(s, u, item, to_bag, quantity, existing, t) :
                     existing \in FirstId(
                         {i \in s.items :
                            /\ SameKey(i, item.name, item.type, item.brand,
                                       item.size, item.expiry_date)
                            /\ i.bag_id = to_bag_id})}

\* ---------------------------------------------------------------- usage
handle_usage(s, u, item_id, quantity_used, patient_name, t) ==
    IF item_id = NoId \/ quantity_used <= 0 THEN {Rejected(s, "invalid")}
    ELSE IF patient_name = "" THEN {Rejected(s, "invalid")}
    ELSE IF Get(s.items, item_id) = {} THEN {Rejected(s, "error")}
    ELSE LET item == Row(s.items, item_id) IN
         IF Insufficient(quantity_used, item) THEN {Rejected(s, "insufficient")}
         ELSE IF Get(s.bags, item.bag_id) = {} THEN {Rejected(s, "error")}
         ELSE LET bag_name == BagName(s, item.bag_id)
                  movement == NewMovement(s.seq.movement, item, quantity_used,
                                          "usage", bag_name, None, "usage",
                                          patient_name, t)
                  data == [NoData EXCEPT
                              !.item_id = item.id, !.quantity = quantity_used,
                              !.item_name = item.name, !.bag_name = bag_name,
                              !.patient_name = patient_name]
                  undo == NewUndoAction(s.seq.undo, "usage", data, u, t)
              IN  {Outcome([s EXCEPT
                              !.items = AddQuantity(@, item.id, -quantity_used),
                              !.movements = @ \cup {movement},
                              !.undo_actions = @ \cup {undo},
                              !.seq = [@ EXCEPT !.movement = @ + 1,
                                                !.undo = @ + 1]],
                           "ok", undo.id, FALSE)}

\* -------------------------------------------------------------- wastage
handle_wastage(s, item_id, quantity_wasted, t) ==
    IF item_id = NoId \/ quantity_wasted <= 0 THEN {Rejected(s, "invalid")}
    ELSE IF Get(s.items, item_id) = {} THEN {Rejected(s, "error")}
    ELSE LET item == Row(s.items, item_id) IN
         IF Insufficient(quantity_wasted, item) THEN {Rejected(s, "insufficient")}
         ELSE IF Get(s.bags, item.bag_id) = {} THEN {Rejected(s, "error")}
         ELSE LET movement == NewMovement(s.seq.movement, item, quantity_wasted,
                                          "wastage", BagName(s, item.bag_id),
                                          None, "wastage", None, t)
              IN  {Outcome([s EXCEPT
                              !.items = AddQuantity(@, item.id, -quantity_wasted),
                              !.movements = @ \cup {movement},
                              !.seq = [@ EXCEPT !.movement = @ + 1]],
                           "ok", NoId, FALSE)}

\* ------------------------------------------------------------- addition
\* One filled-in row of the manual form.  The product is looked up by name and
\* created when missing; the row is merged into the first identical Item of
\* the bag or becomes a new Item; the movement and the undo payload both carry
\* item.quantity, the quantity the Item holds after the addition.
manual_apply(s, u, bag, name, type, brand, size, quantity, expiry, existing, t) ==
    LET found == {p \in s.products : p.name = name}
        product_id == IF found = {} THEN s.seq.product
                      ELSE (CHOOSE p \in found : TRUE).id
        prods == IF found = {}
                 THEN s.products \cup {[id |-> product_id, name |-> name,
                                        type |-> type, minimum_stock |-> 0]}
                 ELSE s.products
        item == IF existing # NoId
                THEN [Row(s.items, existing) EXCEPT !.quantity = @ + quantity]
                ELSE NewItem(s.seq.item, name, type, brand, size, quantity,
                             expiry, bag.id, product_id)
        movement == NewMovement(s.seq.movement, item, item.quantity, "addition",
                                None, bag.name, "Added manually", None, t)
        data == [NoData EXCEPT
                    !.item_name = item.name, !.item_type = item.type,
                    !.item_brand = item.brand, !.item_size = item.size,
                    !.quantity = item.quantity,
                    !.item_expiry_date = item.expiry_date,
                    !.bag_id = bag.id, !.bag_name = bag.name,
                    !.product_id = product_id,
                    !.product_created = ~(\E p \in prods : p.name = name)]
        undo == NewUndoAction(s.seq.undo, "add_item", data, u, t)
    IN  Outcome([s EXCEPT !.products = prods,
                          !.items = Delete(@, item.id) \cup {item},
                          !.movements = @ \cup {movement},
                          !.undo_actions = @ \cup {undo},
                          !.seq = [@ EXCEPT
                                     !.product = IF found = {} THEN @ + 1 ELSE @,
                                     !.item = IF existing = NoId THEN @ + 1 ELSE @,
                                     !.movement = @ + 1,
                                     !.undo = @ + 1]],
                "ok", undo.id, FALSE)

handle_manual_addition(s, u, bag_id, name, type, brand, size, quantity, expiry, t) ==
    IF bag_id = NoId THEN {Rejected(s, "invalid")}
    ELSE IF Get(s.bags, bag_id) = {} THEN {Rejected(s, "error")}
    ELSE {manual_apply(s, u, Row(s.bags, bag_id), name, type, brand, size,
                       quantity, expiry, existing, t) :
            existing \in FirstId({i \in s.items :
                                    /\ SameKey(i, name, type, brand, size, expiry)
                                    /\ i.bag_id = bag_id})}

\* One row of an uploaded CSV file: the bag is looked up by name and created
\* when missing; no product is linked and no UndoAction is recorded.
csv_apply(s, bag_name, name, type, brand, size, quantity, expiry, existing, t) ==
    LET found == {b \in s.bags : b.name = bag_name}
        bag == IF found = {}
               THEN [id |-> s.seq.bag, name |-> bag_name,
                     description |-> "Auto-created from CSV", location |-> "bag"]
               ELSE CHOOSE b \in found : TRUE
        item == IF existing # NoId
                THEN [Row(s.items, existing) EXCEPT !.quantity = @ + quantity]
                ELSE NewItem(s.seq.item, name, type, brand, size, quantity,
                             expiry, bag.id, NoId)
        movement == NewMovement(s.seq.movement, item, item.quantity, "addition",
                                None, bag.name, "Added via CSV upload", None, t)
    IN  Outcome([s EXCEPT !.bags = @ \cup {bag},
                          !.items = Delete(@, item.id) \cup {item},
                          !.movements = @ \cup {movement},
                          !.seq = [@ EXCEPT
                                     !.bag = IF found = {} THEN @ + 1 ELSE @,
                                     !.item = IF existing = NoId THEN @ + 1 ELSE @,
                                     !.movement = @ + 1]],
                "ok", NoId, FALSE)

handle_csv_upload(s, bag_name, name, type, brand, size, quantity, expiry, t) ==
    {csv_apply(s, bag_name, name, type, brand, size, quantity, expiry, existing, t) :
       existing \in FirstId({i \in s.items :
                               /\ SameKey(i, name, type, brand, size, expiry)
                               /\ \E b \in s.bags : b.name = bag_name
                                                    /\ i.bag_id = b.id})}

\* ------------------------------------------------------ batched transfer
\* The body of the loop of handle_multi_transfer for one accepted line.
multi_transfer_one(s, item, to_bag, quantity, existing, t) ==
    LET dest == IF existing # NoId
                THEN AddQuantity(s.items, existing, quantity)
                ELSE s.items \cup
                     {NewItem(s.seq.item, item.name, item.type, item.brand,
                              item.size, quantity, item.expiry_date, to_bag.id,
                              item.product_id)}
        left == item.quantity - quantity
        src == IF left <= 0 THEN Delete(dest, item.id)
               ELSE SetQuantity(dest, item.id, left)
        movement == NewMovement(s.seq.movement, item, quantity, "transfer",
                                BagName(s, item.bag_id), to_bag.name,
                                "Multi-transfer", None, t)
    IN  [s EXCEPT !.items = src,
                  !.movements = @ \cup {movement},
                  !.seq = [@ EXCEPT
                             !.item = IF existing = NoId THEN @ + 1 ELSE @,
                             !.movement = @ + 1]]

\* The loop over the form's lines: a line whose item is gone, whose quantity
\* exceeds the stock or whose item already is in the destination is skipped.
\* Yields the sessions the loop can leave with the list of successful transfers.
RECURSIVE multi_transfer_loop(_, _, _, _, _)
multi_transfer_loop(s, to_bag, lines, successful, t) ==
    IF lines = <<>> THEN {[s |-> s, successful |-> successful]}
    ELSE LET line == Head(lines) IN
         IF Get(s.items, line.item_id) = {}
         THEN multi_transfer_loop(s, to_bag, Tail(lines), successful, t)
         ELSE LET item == Row(s.items, line.item_id) IN
              IF line.quantity > item.quantity \/ item.bag_id = to_bag.id
              THEN multi_transfer_loop(s, to_bag, Tail(lines), successful, t)
              ELSE UNION {
                     multi_transfer_loop(
                         multi_transfer_one(s, item, to_bag, line.quantity,
                                            existing, t),
                         to_bag, Tail(lines),
                         Append(successful,
                                [name |-> item.name, quantity |-> line.quantity,
                                 from_bag |-> BagName(s, item.bag_id)]), t) :
                     existing \in FirstId(
                         {i \in s.items :
                            /\ SameKey(i, item.name, item.type, item.brand,
                                       item.size, item.expiry_date)
                            /\ i.bag_id = to_bag.id})}

handle_multi_transfer(s, u, to_bag_id, form, t) ==
    LET lines == SelectSeq(form, LAMBDA l : l.item_id # NoId /\ l.quantity > 0) IN
    IF to_bag_id = NoId THEN {Rejected(s, "invalid")}
    ELSE IF Get(s.bags, to_bag_id) = {} THEN {Rejected(s, "error")}
    ELSE IF lines = <<>> THEN {Rejected(s, "invalid")}
    ELSE LET to_bag == Row(s.bags, to_bag_id) IN
         {IF r.successful = <<>> THEN Rejected(s, "nothing_transferred")
          ELSE LET data == [NoData EXCEPT !.to_bag_id = to_bag_id,
                                          !.bag_name = to_bag.name,
                                          !.transfers = r.successful]
                   undo == NewUndoAction(r.s.seq.undo, "multi_transfer", data, u, t)
               IN  Outcome([r.s EXCEPT !.undo_actions = @ \cup {undo},
                                       !.seq = [@ EXCEPT !.undo = @ + 1]],
                           "ok", undo.id, FALSE) :
            r \in multi_transfer_loop(s, to_bag, lines, <<>>, t)}

\* -------------------------------------------------------- quick restock
\* Query.all() with no ORDER BY: the rows in any order.
RECURSIVE Orders(_)
Orders(ids) ==
    IF ids = {} THEN {<<>>}
    ELSE UNION {{<<x>> \o rest : rest \in Orders(ids \ {x})} : x \in ids}

Min(a, b) == IF a <= b THEN a ELSE b

\* The loop of quick_restock over the Cabinet's batches of one product.
RECURSIVE restock_loop(_, _, _, _, _, _, _)
restock_loop(s, cabinet, target_bag, product_id, order, remaining, t) ==
    IF order = <<>> \/ remaining <= 0 THEN {s}
    ELSE LET cabinet_item == Row(s.items, Head(order))
             transfer_qty == Min(remaining, cabinet_item.quantity)
             Moved(existing) ==
                 LET dest == IF existing # NoId
                             THEN AddQuantity(s.items, existing, transfer_qty)
                             ELSE s.items \cup
                                  {NewItem(s.seq.item, cabinet_item.name,
                                           cabinet_item.type, cabinet_item.brand,
                                           cabinet_item.size, transfer_qty,
                                           cabinet_item.expiry_date,
                                           target_bag.id, product_id)}
                     movement == NewMovement(s.seq.movement, cabinet_item,
                                             transfer_qty, "transfer",
                                             cabinet.name, target_bag.name,
                                             "Quick restock transfer", None, t)
                 IN  [s EXCEPT
                        !.items = AddQuantity(dest, cabinet_item.id, -transfer_qty),
                        !.movements = @ \cup {movement},
                        !.seq = [@ EXCEPT
                                   !.item = IF existing = NoId THEN @ + 1 ELSE @,
                                   !.movement = @ + 1]]
         IN  UNION {restock_loop(Moved(existing), cabinet, target_bag, product_id,
                                 Tail(order), remaining - transfer_qty, t) :
                      existing \in FirstId(
                          {i \in s.items :
                             /\ SameKey(i, cabinet_item.name, cabinet_item.type,
                                        cabinet_item.brand, cabinet_item.size,
                                        cabinet_item.expiry_date)
                             /\ i.bag_id = target_bag.id
                             /\ i.product_id = product_id})}

\* quick_restock for a form with one product line; it commits whatever the
\* loop moved and records no UndoAction.
quick_restock(s, bag_id, product_id, quantity, t) ==
    LET cabinets == {b \in s.bags : b.name = CabinetName} IN
    IF bag_id = NoId THEN {Rejected(s, "invalid")}
    ELSE IF Get(s.bags, bag_id) = {} \/ cabinets = {}
    THEN {Rejected(s, "invalid")}
    ELSE IF quantity <= 0 \/ Get(s.products, product_id) = {}
    THEN {Outcome(s, "ok", NoId, FALSE)}
    ELSE {Outcome(r, "ok", NoId, FALSE) :
            r \in UNION {
                UNION {restock_loop(s, cabinet, Row(s.bags, bag_id), product_id,
                                    order, quantity, t) :
                         order \in Orders({c.id : c \in
                                  {i \in s.items : /\ i.bag_id = cabinet.id
                                                   /\ i.product_id = product_id
                                                   /\ i.quantity > 0}})} :
                cabinet \in cabinets}}

\* --------------------------------------------------------- bag deletion
\* The ids of a set of rows as a list, lowest first.
RECURSIVE Ascending(_)
Ascending(ids) ==
    IF ids = {} THEN <<>>
    ELSE LET m == CHOOSE x \in ids : \A y \in ids : x <= y
         IN  <<m>> \o Ascending(ids \ {m})

\* handle_bag_management, action 'delete'.  The items with stock are moved to
\* the Cabinet as they are; the DELETE of a bag that still holds a row (one
\* with no stock) fails on Item.bag_id NOT NULL and the request is rolled back.
handle_bag_delete(s, u, bag_id, t) ==
    IF Get(s.bags, bag_id) = {} THEN {Rejected(s, "error")}
    ELSE LET bag == Row(s.bags, bag_id)
             cabinets == {b \in s.bags : b.name = CabinetName}
         IN
         IF bag.name = CabinetName THEN {Rejected(s, "protected")}
         ELSE IF cabinets = {} THEN {Rejected(s, "invalid")}
         ELSE
         LET cabinet == CHOOSE b \in cabinets : TRUE
             bag_items == {i \in s.items : i.bag_id = bag.id}
             moved == {i \in bag_items : i.quantity > 0}
             order == Ascending({i.id : i \in moved})
             minimums == {m \in s.bag_minimums : m.bag_id = bag.id}
             data == [NoData EXCEPT
                        !.bag_id = bag.id, !.bag_name = bag.name,
                        !.bag_description = bag.description,
                        !.bag_location = bag.location,
                        !.transferred_items = {i.id : i \in moved},
                        !.deleted_minimums =
                            {[product_id |-> m.product_id,
                              minimum_quantity |-> m.minimum_quantity] :
                               m \in minimums}]
             undo == NewUndoAction(s.seq.undo, "delete_bag", data, u, t)
             deletion == [id |-> s.seq.deletion, entity_type |-> "bag",
                          entity_name |-> bag.name, user_id |-> u,
                          is_restored |-> FALSE]
         IN  IF bag_items \ moved # {} THEN {Rejected(s, "error")}
             ELSE {Outcome(
                     [s EXCEPT
                        !.items = {IF i \in moved
                                   THEN [i EXCEPT !.bag_id = cabinet.id]
                                   ELSE i : i \in @},
                        !.movements = @ \cup
                            {NewMovement(s.seq.movement + k - 1,
                                         Row(s.items, order[k]),
                                         Row(s.items, order[k]).quantity,
                                         "transfer", bag.name, cabinet.name,
                                         "Auto-transferred due to bag deletion",
                                         None, t) : k \in 1..Len(order)},
                        !.bag_minimums = @ \ minimums,
                        !.permanent_deletions = @ \cup {deletion},
                        !.undo_actions = @ \cup {undo},
                        !.bags = Delete(@, bag.id),
                        !.seq = [@ EXCEPT !.movement = @ + Len(order),
                                          !.deletion = @ + 1,
                                          !.undo = @ + 1]],
                     "ok", undo.id, FALSE)}

\* ------------------------------------------------------ inventory audit
AuditTypes == {"BULK_WEEKLY_CHECK_USAGE", "BULK_WEEKLY_CHECK_ADJUSTMENT"}

\* The reduction loop shared in shape by the audit and by its undo: take
\* `remaining` units from the rows in the order given, leaving rows at zero.
RECURSIVE Drain(_, _, _)
Drain(its, order, remaining) ==
    IF order = <<>> \/ remaining <= 0 THEN its
    ELSE LET item == Row(its, Head(order)) IN
         IF item.quantity <= remaining
         THEN Drain(SetQuantity(its, item.id, 0), Tail(order),
                    remaining - item.quantity)
         ELSE Drain(SetQuantity(its, item.id, item.quantity - remaining),
                    Tail(order), 0)

Abs(n) == IF n < 0 THEN -n ELSE n

\* The loop of handle_inventory_audit over the form's rows.  The movement is
\* stamped when it is built (t - 1), before the flush that stamps the rest (t).
RECURSIVE audit_loop(_, _, _, _)
audit_loop(s, rows, bulk_movements, t) ==
    IF rows = <<>> THEN {[s |-> s, bulk_movements |-> bulk_movements]}
    ELSE LET row == Head(rows)
             delta == row.new_count - row.current_qty
             movement ==
                 NewMovement(s.seq.movement,
                             [name |-> row.item_name, type |-> row.item_type,
                              size |-> row.item_size],
                             Abs(delta),
                             IF delta < 0 THEN "BULK_WEEKLY_CHECK_USAGE"
                             ELSE "BULK_WEEKLY_CHECK_ADJUSTMENT",
                             None, None, "Weekly check", None, t - 1)
             items_to_update ==
                 {i \in s.items : /\ i.name = row.item_name
                                  /\ i.type = row.item_type
                                  /\ i.size = row.item_size
                                  /\ i.quantity > 0}
             updated ==
                 IF delta < 0
                 THEN {Drain(s.items, order, -delta) :
                         order \in Orders({i.id : i \in items_to_update})}
                 ELSE IF items_to_update = {} THEN {s.items}
                 ELSE {AddQuantity(s.items, i.id, delta) : i \in items_to_update}
         IN  IF delta = 0 THEN audit_loop(s, Tail(rows), bulk_movements, t)
             ELSE UNION {audit_loop([s EXCEPT !.items = its,
                                              !.seq = [@ EXCEPT !.movement = @ + 1]],
                                    Tail(rows), Append(bulk_movements, movement),
                                    t) : its \in updated}

handle_inventory_audit(s, u, selected_bag_id, form, t) ==
    {LET n == Len(r.bulk_movements)
         audit == [id |-> r.s.seq.audit, user_id |-> u,
                   bag_id |-> selected_bag_id, items_checked |-> n,
                   reversed |-> FALSE]
         data == [NoData EXCEPT
                    !.audit_id = audit.id,
                    !.changes =
                        [k \in 1..n |->
                           LET m == r.bulk_movements[k] IN
                           [item_name |-> m.item_name, item_type |-> m.item_type,
                            item_size |-> m.item_size,
                            quantity_change |->
                                IF m.movement_type = "BULK_WEEKLY_CHECK_USAGE"
                                THEN -m.quantity ELSE m.quantity]]]
         undo == NewUndoAction(r.s.seq.undo, "inventory_audit", data, u, t)
         saved == [r.s EXCEPT
                     !.movements = @ \cup {r.bulk_movements[k] : k \in 1..n},
                     !.audits = @ \cup {audit},
                     !.seq = [@ EXCEPT !.audit = @ + 1]]
     IN  IF n = 0 THEN Outcome(saved, "ok", NoId, FALSE)
         ELSE Outcome([saved EXCEPT !.undo_actions = @ \cup {undo},
                                    !.seq = [@ EXCEPT !.undo = @ + 1]],
                      "ok", undo.id, FALSE) :
       r \in audit_loop(s, form, <<>>, t)}

\* ----------------------------------------------------------------- undo
\* What one branch of undo_last_action leaves: the session, whether a row the
\* payload names was missing and skipped, and how the branch ended ("ok",
\* "error" for an exception, or the message of an early return).
Reversal(s, skipped, result) == [s |-> s, skipped |-> skipped, result |-> result]

\* The 'transfer' branch.
undo_transfer(s, d, t) ==
    LET \* the destination side, once the row to act on is chosen
        DestSide(dest_id) ==
            IF dest_id = NoId THEN s.items
            ELSE IF d.new_item_created THEN Delete(s.items, dest_id)
            ELSE LET dest_item == Row(s.items, dest_id) IN
                 IF dest_item.quantity - d.quantity <= 0
                 THEN Delete(s.items, dest_id)
                 ELSE AddQuantity(s.items, dest_id, -d.quantity)
        dest_ids ==
            IF d.new_item_created
            THEN FirstId({i \in s.items : i.name = d.item_name
                                          /\ i.bag_id = d.to_bag_id})
            ELSE FirstId(Get(s.items, d.existing_item_id))
        \* the source side
        source_missing == ~d.source_item_deleted /\ Get(s.items, d.item_id) = {}
        SourceSide(its) ==
            IF d.source_item_deleted
            THEN its \cup {NewItem(s.seq.item, d.item_name, d.item_type,
                                   d.item_brand, d.item_size, d.quantity,
                                   d.item_expiry_date, d.from_bag_id,
                                   d.product_id)}
            ELSE AddQuantity(its, d.item_id, d.quantity)
        from_bag == Get(s.bags, d.from_bag_id)
        to_bag == Get(s.bags, d.to_bag_id)
        Kept == {m \in s.movements :
                   ~(/\ m.item_name = d.item_name
                     /\ m.from_bag = BagName(s, d.from_bag_id)
                     /\ m.to_bag = BagName(s, d.to_bag_id)
                     /\ m.quantity = d.quantity
                     /\ m.movement_type = "transfer")}
    IN  IF from_bag = {} \/ to_bag = {}
        THEN {Reversal(s, FALSE, "error")}
        ELSE {Reversal([s EXCEPT
                          !.items = SourceSide(DestSide(dest_id)),
                          !.movements = Kept,
                          !.seq = [@ EXCEPT !.item = IF d.source_item_deleted
                                                     THEN @ + 1 ELSE @]],
                       dest_id = NoId \/ source_missing, "ok") :
                dest_id \in dest_ids}

\* A 'usage' reversal that restores the quantity and leaves the log alone.
undo_usage_keeps_entry(s, d, t) ==
    IF Get(s.items, d.item_id) = {}
    THEN {Reversal(s, FALSE, "not_found")}
    ELSE {Reversal([s EXCEPT !.items = AddQuantity(@, d.item_id, d.quantity)],
                   FALSE, "ok")}

\* The 'usage' branch.
undo_usage(s, d, t) ==
    IF Get(s.items, d.item_id) = {}
    THEN {Reversal(s, FALSE, "not_found")}
    ELSE {Reversal([s EXCEPT
                      !.items = AddQuantity(@, d.item_id, d.quantity),
                      !.movements =
                          {m \in @ :
                             ~(/\ m.item_name = d.item_name
                               /\ m.from_bag = d.bag_name
                               /\ m.quantity = d.quantity
                               /\ m.movement_type = "usage"
                               /\ m.patient_name = d.patient_name)}],
                   FALSE, "ok")}

\* The 'add_item' branch: the Item is looked up by its key, its bag and the
\* quantity recorded at the addition, and deleted whole.
undo_add_item(s, d, t) ==
    LET found == {i \in s.items :
                    /\ i.name = d.item_name /\ i.type = d.item_type
                    /\ i.brand = d.item_brand /\ i.size = d.item_size
                    /\ i.bag_id = d.bag_id /\ i.quantity = d.quantity}
        Without(id) == Delete(s.items, id)
        Unreferenced(id) ==
            /\ d.product_created /\ d.product_id # NoId
            /\ ~(\E i \in Without(id) : i.product_id = d.product_id)
    IN  IF found = {} THEN {Reversal(s, FALSE, "not_found")}
        ELSE {Reversal([s EXCEPT
                          !.items = Without(i.id),
                          !.movements =
                              {m \in @ :
                                 ~(/\ m.item_name = d.item_name
                                   /\ m.to_bag = d.bag_name
                                   /\ m.quantity = d.quantity
                                   /\ m.movement_type = "addition"
                                   /\ m.notes = "Added manually")},
                          !.products = IF Unreferenced(i.id)
                                       THEN Delete(@, d.product_id) ELSE @],
                       FALSE, "ok") : i \in found}

\* The 'delete_bag' branch.  Bag.name is unique: recreating the bag while a
\* bag of that name exists fails at the flush.
undo_delete_bag(s, u, d, t) ==
    LET new_bag == [id |-> s.seq.bag, name |-> d.bag_name,
                    description |-> d.bag_description,
                    location |-> d.bag_location]
        back == {i \in s.items : i.id \in d.transferred_items}
        minimums == Ascending({m.product_id : m \in d.deleted_minimums})
        restored == FirstId({p \in s.permanent_deletions :
                               /\ p.entity_type = "bag"
                               /\ p.entity_name = d.bag_name
                               /\ p.user_id = u
                               /\ ~p.is_restored})
    IN  IF \E b \in s.bags : b.name = d.bag_name
        THEN {Reversal(s, FALSE, "error")}
        ELSE {Reversal(
                [s EXCEPT
                   !.bags = @ \cup {new_bag},
                   !.items = {IF i \in back THEN [i EXCEPT !.bag_id = new_bag.id]
                              ELSE i : i \in @},
                   !.bag_minimums = @ \cup
                       {[id |-> s.seq.minimum + k - 1, bag_id |-> new_bag.id,
                         product_id |-> minimums[k],
                         minimum_quantity |->
                             (CHOOSE m \in d.deleted_minimums :
                                m.product_id = minimums[k]).minimum_quantity] :
                          k \in 1..Len(minimums)},
                   !.permanent_deletions =
                       {IF p.id = pd THEN [p EXCEPT !.is_restored = TRUE] ELSE p :
                          p \in @},
                   !.movements =
                       {m \in @ :
                          ~(/\ m.from_bag = d.bag_name
                            /\ m.to_bag = "Cabinet"
                            /\ m.notes = "Auto-transferred due to bag deletion")},
                   !.seq = [@ EXCEPT !.bag = @ + 1,
                                     !.minimum = @ + Len(minimums)]],
                {i.id : i \in back} # d.transferred_items, "ok") :
              pd \in restored}

\* The loop of the 'inventory_audit' branch over the recorded changes: a
\* reduction is added back to the first matching row, an addition is drained
\* from the matching rows.  Yields the item tables the loop can leave and
\* whether a change found no row to act on.
RECURSIVE undo_audit_loop(_, _, _)
undo_audit_loop(its, changes, skipped) ==
    IF changes = <<>> THEN {[items |-> its, skipped |-> skipped]}
    ELSE LET change == Head(changes)
             items_to_update ==
                 {i \in its : /\ i.name = change.item_name
                              /\ i.type = change.item_type
                              /\ i.size = change.item_size
                              /\ i.quantity >= 0}
             updated ==
                 IF change.quantity_change < 0
                 THEN IF items_to_update = {} THEN {its}
                      ELSE {AddQuantity(its, i.id, -change.quantity_change) :
                              i \in items_to_update}
                 ELSE {Drain(its, order, change.quantity_change) :
                         order \in Orders({i.id : i \in items_to_update})}
         IN  UNION {undo_audit_loop(next, Tail(changes),
                                    skipped \/ items_to_update = {}) :
                      next \in updated}

\* The 'inventory_audit' branch.
undo_inventory_audit(s, a, t) ==
    LET d == a.action_data IN
    {Reversal([s EXCEPT
                 !.items = r.items,
                 !.movements = {m \in @ : ~(/\ m.movement_type \in AuditTypes
                                            /\ m.timestamp >= a.timestamp)},
                 !.audits = {IF x.id = d.audit_id
                             THEN [x EXCEPT !.reversed = TRUE] ELSE x : x \in @}],
              r.skipped, "ok") :
       r \in undo_audit_loop(s.items, d.changes, FALSE)}

\* The branch for the action's type.
undo_dispatch(s, u, a, t) ==
    CASE a.action_type = "transfer" -> undo_transfer(s, a.action_data, t)
      [] a.action_type = "usage" -> undo_usage(s, a.action_data, t)
      [] a.action_type = "add_item" -> undo_add_item(s, a.action_data, t)
      [] a.action_type = "delete_bag" -> undo_delete_bag(s, u, a.action_data, t)
      [] a.action_type = "inventory_audit" -> undo_inventory_audit(s, a, t)
      [] OTHER -> {Reversal(s, FALSE, "unknown")}

\* A selection that ignores is_used (for sensitivity).
newest_action(s, u) ==
    LET mine == {a \in s.undo_actions : a.user_id = u}
    IN  {a \in mine : \A b \in mine : b.timestamp <= a.timestamp}

\* A selection that ignores whose action it is (for sensitivity).
newest_unused_of_anyone(s, u) ==
    LET unused == {a \in s.undo_actions : ~a.is_used}
    IN  {a \in unused : \A b \in unused : b.timestamp <= a.timestamp}

\* ORDER BY timestamp DESC ... first(): the newest unused action of the user.
last_unused_action(s, u) ==
    LET unused == {a \in s.undo_actions : a.user_id = u /\ ~a.is_used}
    IN  {a \in unused : \A b \in unused : b.timestamp <= a.timestamp}

undo_last_action(s, u, t) ==
    IF last_unused_action(s, u) = {} THEN {Rejected(s, "nothing")}
    ELSE UNION {
           {IF r.result = "ok"
            THEN Outcome([r.s EXCEPT !.undo_actions =
                             {IF x.id = a.id THEN [x EXCEPT !.is_used = TRUE]
                              ELSE x : x \in @}],
                         "ok", a.id, r.skipped)
            ELSE Outcome(s, r.result, a.id, FALSE) :
              r \in undo_dispatch(s, u, a, t)} :
           a \in last_unused_action(s, u)}

\* -------------------------------------------------------- initial state
\* The seed of src/app.py scaled down: the Cabinet, two medical bags (one of
\* them empty), one product, three batches and one bag minimum.
SeedBags ==
    {[id |-> 1, name |-> CabinetName, description |-> "Central storage cabinet",
      location |-> "cabinet"],
     [id |-> 2, name |-> "Emergency Bag 1",
      description |-> "Primary emergency response bag", location |-> "bag"],
     [id |-> 3, name |-> "Emergency Bag 2",
      description |-> "Secondary emergency response bag", location |-> "bag"]}

SeedProducts ==
    {[id |-> 1, name |-> "Normal Saline 0.9%", type |-> "IV Fluids", minimum_stock |-> 1]}

SeedItems ==
    {NewItem(1, "Normal Saline 0.9%", "IV Fluids", None, "500ml", 2, Expiry, 1, 1),
     NewItem(2, "Normal Saline 0.9%", "IV Fluids", None, "1L", 1, Expiry, 1, 1),
     NewItem(3, "Normal Saline 0.9%", "IV Fluids", None, "500ml", 2, Expiry, 2, 1)}

SeedMinimums ==
    {[id |-> 1, bag_id |-> 2, product_id |-> 1, minimum_quantity |-> 2]}

\* The requests that can be in flight at once, and one that has not arrived.
Slots == {1, 2}
Idle ==
    [pc |-> "idle", kind |-> "none", user |-> NoId, item_id |-> NoId,
     quantity |-> 0, seen |-> 0, movement |-> NoId, action |-> NoId]

\* The Item object of StockSpec before it is constructed.  units_per_box
\* stands for product.units_per_box; 0 is an Item without a product or a
\* product without box tracking (None and 0 are both false in the guards).
NoBatch ==
    [pc |-> "none", units_per_box |-> 0, boxes |-> 0, loose_pieces |-> 0,
     quantity |-> 0, call |-> "none", arg |-> 0, boxes_arg |-> 0,
     result |-> "none",
     before |-> [boxes |-> 0, loose_pieces |-> 0, quantity |-> 0], calls |-> 0]

NoRequest ==
    [op |-> "none", user |-> NoId, result |-> "none", action |-> NoId,
     skipped |-> FALSE]

Init ==
    /\ items = SeedItems
    /\ bags = SeedBags
    /\ products = SeedProducts
    /\ bag_minimums = SeedMinimums
    /\ movements = {}
    /\ undo_actions = {}
    /\ permanent_deletions = {}
    /\ audits = {}
    /\ seq = [item |-> 4, bag |-> 4, product |-> 2, minimum |-> 2,
              movement |-> 1, undo |-> 1, deletion |-> 1, audit |-> 1]
    /\ clock = 0
    /\ last = NoRequest
    /\ prev = NoRequest
    /\ pre = DB
    /\ pre2 = DB
    /\ nops = 0
    /\ nundos = 0
    /\ inflight = [r \in Slots |-> Idle]
    /\ batch = NoBatch

\* -------------------------------------------------------------- requests
\* db.session.commit() of the session `s`.
Commit(s) ==
    /\ items' = s.items
    /\ bags' = s.bags
    /\ products' = s.products
    /\ bag_minimums' = s.bag_minimums
    /\ movements' = s.movements
    /\ undo_actions' = s.undo_actions
    /\ permanent_deletions' = s.permanent_deletions
    /\ audits' = s.audits
    /\ seq' = s.seq

\* A behaviour is followed up to its first rejected request, which leaves the
\* tables as they were, and for a bounded number of requests.
MayRequest == last.result \in {"none", "ok"} /\ nops < MaxOps
MayUndo == last.result \in {"none", "ok"} /\ nundos < MaxUndos

\* One request served: its outcome `o` is committed when the handler reached
\* its commit, and dropped otherwise.
Served(op, u, o) ==
    /\ Commit(IF o.result = "ok" THEN o.s ELSE DB)
    /\ clock' = clock + 2
    /\ last' = [op |-> op, user |-> u, result |-> o.result, action |-> o.action,
                skipped |-> o.skipped]
    /\ prev' = last
    /\ pre' = DB
    /\ pre2' = pre
    /\ nops' = IF op = "undo" THEN nops ELSE nops + 1
    /\ nundos' = IF op = "undo" THEN nundos + 1 ELSE nundos
    /\ UNCHANGED <<inflight, batch>>

\* Ids a form can carry: every id the table has handed out so far.
ItemIds == 1..(seq.item - 1)
BagIds == 1..(seq.bag - 1)
Now == clock + 2

Transfer ==
    /\ MayRequest
    /\ \E u \in Users, item_id \in ItemIds, to_bag_id \in BagIds, quantity \in FormQty :
         \E o \in handle_transfer(DB, u, item_id, to_bag_id, quantity, Now) :
           Served("transfer", u, o)

Usage ==
    /\ MayRequest
    /\ \E u \in Users, item_id \in ItemIds, quantity \in FormQty, p \in Patients :
         \E o \in handle_usage(DB, u, item_id, quantity, p, Now) :
           Served("usage", u, o)

Wastage ==
    /\ MayRequest
    /\ \E item_id \in ItemIds, quantity \in FormQty :
         \E o \in handle_wastage(DB, item_id, quantity, Now) :
           Served("wastage", NoId, o)

ManualAddition ==
    /\ MayRequest
    /\ \E u \in Users, bag_id \in BagIds, name \in Names \cup NewNames,
          type \in Types, size \in Sizes, quantity \in AddQty :
         \E o \in handle_manual_addition(DB, u, bag_id, name, type, None, size,
                                         quantity, Expiry, Now) :
           Served("add_item", u, o)

CsvUpload ==
    /\ MayRequest
    /\ \E bag_name \in CsvBags, name \in Names, type \in Types, size \in Sizes,
          quantity \in AddQty :
         \E o \in handle_csv_upload(DB, bag_name, name, type, None, size, quantity,
                                    Expiry, Now) :
           Served("csv", NoId, o)

\* The batched-transfer forms: one line, or two lines for two different items.
BatchForms ==
    {<<[item_id |-> i, quantity |-> q]>> : i \in ItemIds, q \in 1..MaxQty}
    \cup {<<[item_id |-> p[1], quantity |-> 1], [item_id |-> p[2], quantity |-> 1]>> :
            p \in {pair \in ItemIds \X ItemIds : pair[1] < pair[2]}}

MultiTransfer ==
    /\ MayRequest
    /\ \E u \in Users, to_bag_id \in BagIds, form \in BatchForms :
         \E o \in handle_multi_transfer(DB, u, to_bag_id, form, Now) :
           Served("multi_transfer", u, o)

QuickRestock ==
    /\ MayRequest
    /\ \E bag_id \in BagIds, product_id \in 1..(seq.product - 1),
          quantity \in 1..(MaxQty + 1) :
         \E o \in quick_restock(DB, bag_id, product_id, quantity, Now) :
           Served("quick_restock", NoId, o)

DeleteBag ==
    /\ MayRequest
    /\ \E u \in Users, bag_id \in BagIds :
         \E o \in handle_bag_delete(DB, u, bag_id, Now) :
           Served("delete_bag", u, o)

\* The audit form: one row, whose hidden current quantity is what the page
\* showed when it was rendered.
AuditForms ==
    {<<[item_name |-> name, item_type |-> type, item_size |-> size,
        current_qty |-> MaxQty + 1, new_count |-> new_count]>> :
       name \in Names, type \in Types, size \in Sizes,
       new_count \in 0..(MaxQty + 2)}

InventoryAudit ==
    /\ MayRequest
    /\ \E u \in Users, form \in AuditForms :
         \E o \in handle_inventory_audit(DB, u, NoId, form, Now) :
           Served("inventory_audit", u, o)

Undo ==
    /\ MayUndo
    /\ \E u \in Users :
         \E o \in undo_last_action(DB, u, Now) :
           Served("undo", u, o)

Next ==
    \/ Transfer
    \/ Usage
    \/ Wastage
    \/ ManualAddition
    \/ CsvUpload
    \/ MultiTransfer
    \/ QuickRestock
    \/ DeleteBag
    \/ InventoryAudit
    \/ Undo

Spec == Init /\ [][Next]_vars

\* ------------------------------------------------- concurrent requests
\* handle_usage and handle_wastage served by two threads, each with a session
\* of its own and no row lock: a request first loads the Item and checks the
\* stock it sees (ReadStock), and later flushes `item.quantity -= quantity`
\* as an UPDATE to the value it computed from what it saw, with its
\* MovementHistory and UndoAction rows, and commits (WriteStock).
Decrement(s, kind, u, item_id, quantity, t) ==
    IF kind = "usage"
    THEN handle_usage(s, u, item_id, quantity, "patient", t)
    ELSE handle_wastage(s, item_id, quantity, t)

ReadStock(r) ==
    /\ inflight[r].pc = "idle"
    /\ \E kind \in {"usage", "wastage"}, item_id \in ItemIds,
          quantity \in 1..MaxQty :
         \E o \in Decrement(DB, kind, r, item_id, quantity, Now) :
           inflight' = [inflight EXCEPT ![r] =
               [pc |-> IF o.result = "ok" THEN "checked" ELSE "rejected",
                kind |-> kind, user |-> r, item_id |-> item_id,
                quantity |-> quantity,
                seen |-> SumQty(Get(items, item_id)), movement |-> NoId,
                action |-> NoId]]
    /\ UNCHANGED <<items, bags, products, bag_minimums, movements, undo_actions,
                   permanent_deletions, audits, seq, clock, last, prev, pre,
                   pre2, nops, nundos, batch>>

WriteStock(r) ==
    LET q == inflight[r]
        \* the session's view: the tables as they are, the Item as it was read
        session == [DB EXCEPT !.items = SetQuantity(@, q.item_id, q.seen)]
    IN  /\ q.pc = "checked"
        /\ \E o \in Decrement(session, q.kind, q.user, q.item_id, q.quantity, Now) :
             /\ Commit(o.s)
             /\ inflight' = [inflight EXCEPT ![r].pc = "done",
                                             ![r].movement = seq.movement]
        /\ clock' = clock + 2
        /\ UNCHANGED <<last, prev, pre, pre2, nops, nundos, batch>>

RaceNext == \E r \in Slots : ReadStock(r) \/ WriteStock(r)

RaceSpec == Init /\ [][RaceNext]_vars

\* ------------------------------------------------- concurrent undo
\* undo_last_action served by two threads, each with a session of its own: a
\* request first loads the user's newest unused UndoAction (ReadLastAction)
\* and later runs the reversal and commits (ApplyUndo).  The UndoAction it
\* holds is the object it loaded, is_used = False, whatever has been
\* committed since; the Items, bags and log entries it queries afterwards are
\* read from the tables as they are then.
TransferFirst ==
    /\ \A r \in Slots : inflight[r].pc = "idle"
    /\ Transfer

ReadLastAction(r) ==
    /\ inflight[r].pc = "idle"
    /\ \E u \in Users :
         \/ /\ last_unused_action(DB, u) = {}
            /\ inflight' = [inflight EXCEPT ![r] =
                   [Idle EXCEPT !.pc = "rejected", !.kind = "undo", !.user = u]]
         \/ \E a \in last_unused_action(DB, u) :
              inflight' = [inflight EXCEPT ![r] =
                  [Idle EXCEPT !.pc = "read", !.kind = "undo", !.user = u,
                               !.action = a.id]]
    /\ UNCHANGED <<items, bags, products, bag_minimums, movements, undo_actions,
                   permanent_deletions, audits, seq, clock, last, prev, pre,
                   pre2, nops, nundos, batch>>

ApplyUndo(r) ==
    LET q == inflight[r]
        \* the session's view: the tables as they are, the UndoAction as loaded
        session == [DB EXCEPT !.undo_actions =
                      {IF x.id = q.action THEN [x EXCEPT !.is_used = FALSE]
                       ELSE x : x \in @}]
    IN  /\ q.pc = "read"
        /\ \E o \in undo_last_action(session, q.user, Now) :
             /\ o.action = q.action
             /\ Commit(IF o.result = "ok" THEN o.s ELSE DB)
             /\ inflight' = [inflight EXCEPT ![r].pc =
                                IF o.result = "ok" THEN "applied" ELSE "failed"]
        /\ clock' = clock + 2
        /\ UNCHANGED <<last, prev, pre, pre2, nops, nundos, batch>>

UndoRaceNext ==
    \/ TransferFirst
    \/ \E r \in Slots : ReadLastAction(r) \/ ApplyUndo(r)

UndoRaceSpec == Init /\ [][UndoRaceNext]_vars

\* ------------------------------------------------- undo, again and again
\* Some requests that record UndoActions, and then nothing but undo requests:
\* every user keeps asking for an undo.  The reversals stamp nothing with the
\* time of the request, so the clock is left out of these steps.
Recorded ==
    /\ last.op # "undo"
    /\ \/ Transfer
       \/ MultiTransfer
       \/ Usage
       \/ ManualAddition
       \/ DeleteBag
       \/ InventoryAudit

KeepUndoing(u) ==
    \E o \in undo_last_action(DB, u, Now) :
       /\ Commit(IF o.result = "ok" THEN o.s ELSE DB)
       /\ last' = [op |-> "undo", user |-> u, result |-> o.result,
                   action |-> o.action, skipped |-> o.skipped]
       /\ prev' = last
       /\ pre' = DB
       /\ pre2' = pre
       /\ UNCHANGED <<clock, nops, nundos, inflight, batch>>

UndoLoopNext == Recorded \/ \E u \in Users : KeepUndoing(u)

UndoLoopSpec ==
    Init /\ [][UndoLoopNext]_vars /\ \A u \in Users : WF_vars(KeepUndoing(u))

\* ------------------------------------------------- audit of one bag
\* The audit page rendered for a selected bag and submitted at once: the page
\* lists the bag's Items with stock grouped by name and size, and the form
\* row of a group carries the group's summed quantity as current_qty.
grouped_items(its, selected_bag_id) ==
    {[name |-> i.name, type |-> i.type, size |-> i.size,
      current_qty |-> SumQty({j \in its : /\ j.bag_id = selected_bag_id
                                          /\ j.quantity > 0
                                          /\ j.name = i.name /\ j.size = i.size})] :
       i \in {j \in its : j.bag_id = selected_bag_id /\ j.quantity > 0}}

AuditOfBag ==
    /\ MayRequest
    /\ \E u \in Users, selected_bag_id \in BagIds, new_count \in 0..(MaxQty + 2) :
         \E g \in grouped_items(items, selected_bag_id) :
           \E o \in handle_inventory_audit(DB, u, selected_bag_id,
                       <<[item_name |-> g.name, item_type |-> g.type,
                          item_size |-> g.size, current_qty |-> g.current_qty,
                          new_count |-> new_count]>>, Now) :
             Served("inventory_audit", u, o)

AuditNext == Transfer \/ AuditOfBag

AuditSpec == Init /\ [][AuditNext]_vars

\* ------------------------------------------------- bags deleted twice
\* The bag requests alone, over one request more than Spec allows: a bag is
\* deleted, a CSV upload recreates a bag of its name, and that bag is deleted
\* again.
MayRequestBag == last.result \in {"none", "ok"} /\ nops < MaxBagOps

DeleteBagRequest ==
    /\ MayRequestBag
    /\ \E u \in Users, bag_id \in BagIds :
         \E o \in handle_bag_delete(DB, u, bag_id, Now) :
           Served("delete_bag", u, o)

CsvUploadRequest ==
    /\ MayRequestBag
    /\ \E bag_name \in CsvBags, name \in Names, type \in Types, size \in Sizes,
          quantity \in AddQty :
         \E o \in handle_csv_upload(DB, bag_name, name, type, None, size, quantity,
                                    Expiry, Now) :
           Served("csv", NoId, o)

BagNext == DeleteBagRequest \/ CsvUploadRequest \/ Undo

BagSpec == Init /\ [][BagNext]_vars

\* ------------------------------------------------------ bag add / edit
\* handle_bag_management, action 'add'.
handle_bag_add(s, name, description, location) ==
    IF name = "" THEN {Rejected(s, "invalid")}
    ELSE IF \E b \in s.bags : b.name = name THEN {Rejected(s, "exists")}
    ELSE {Outcome([s EXCEPT
                     !.bags = @ \cup {[id |-> s.seq.bag, name |-> name,
                                       description |-> description,
                                       location |-> location]},
                     !.seq = [@ EXCEPT !.bag = @ + 1]],
                  "ok", NoId, FALSE)}

\* handle_bag_management, action 'edit': any bag, the Cabinet included, takes
\* the name typed unless another bag carries it.
handle_bag_edit(s, bag_id, name, description) ==
    IF bag_id = NoId \/ name = "" THEN {Rejected(s, "invalid")}
    ELSE IF Get(s.bags, bag_id) = {} THEN {Rejected(s, "error")}
    ELSE IF \E existing \in s.bags : existing.name = name /\ existing.id # bag_id
    THEN {Rejected(s, "exists")}
    ELSE {Outcome([s EXCEPT
                     !.bags = {IF b.id = bag_id
                               THEN [b EXCEPT !.name = name,
                                              !.description = description]
                               ELSE b : b \in @}],
                  "ok", NoId, FALSE)}

\* What the bag form can carry.
BagNames == {"", "Cabinet", "Store"}
BagLocations == {"bag", "cabinet"}

AddBag ==
    /\ MayRequestBag
    /\ \E name \in BagNames, location \in BagLocations :
         \E o \in handle_bag_add(DB, name, "", location) :
           Served("add_bag", NoId, o)

EditBag ==
    /\ MayRequestBag
    /\ \E bag_id \in {NoId} \cup BagIds, name \in BagNames :
         \E o \in handle_bag_edit(DB, bag_id, name, "") :
           Served("edit_bag", NoId, o)

CabinetNext == AddBag \/ EditBag \/ DeleteBagRequest \/ Undo

CabinetSpec == Init /\ [][CabinetNext]_vars

\* ------------------------------------------------------ startup seeding
\* The module body of src/app.py, run at every start of the application, on
\* the data of SeedBags, SeedProducts, SeedItems and SeedMinimums.
bags_data ==
    <<[name |-> CabinetName, description |-> "Central storage cabinet",
       location |-> "cabinet"],
      [name |-> "Emergency Bag 1",
       description |-> "Primary emergency response bag", location |-> "bag"],
      [name |-> "Emergency Bag 2",
       description |-> "Secondary emergency response bag", location |-> "bag"]>>

products_data ==
    <<[name |-> "Normal Saline 0.9%", type |-> "IV Fluids", minimum_stock |-> 1]>>

items_data ==
    <<[name |-> "Normal Saline 0.9%", type |-> "IV Fluids", size |-> "500ml",
       quantity |-> 2, bag |-> CabinetName],
      [name |-> "Normal Saline 0.9%", type |-> "IV Fluids", size |-> "1L",
       quantity |-> 1, bag |-> CabinetName],
      [name |-> "Normal Saline 0.9%", type |-> "IV Fluids", size |-> "500ml",
       quantity |-> 2, bag |-> "Emergency Bag 1"]>>

bag_minimums_data ==
    <<[bag |-> "Emergency Bag 1", product |-> "Normal Saline 0.9%",
       minimum |-> 2]>>

\* The gate of the bag loop: an unrestored PermanentDeletion of that name.
permanently_deleted(s, name) ==
    \E p \in s.permanent_deletions :
       p.entity_type = "bag" /\ p.entity_name = name /\ ~p.is_restored

\* The bag loop.  `created_bags` collects, by name, the bags created and the
\* bags found.
RECURSIVE seed_bags(_, _, _)
seed_bags(s, data, created_bags) ==
    IF data = <<>> THEN [s |-> s, created_bags |-> created_bags]
    ELSE LET bag_data == Head(data)
             found == {b \in s.bags : b.name = bag_data.name}
             bag == [id |-> s.seq.bag, name |-> bag_data.name,
                     description |-> bag_data.description,
                     location |-> bag_data.location]
         IN  IF ~permanently_deleted(s, bag_data.name) /\ found = {}
             THEN seed_bags([s EXCEPT !.bags = @ \cup {bag},
                                      !.seq = [@ EXCEPT !.bag = @ + 1]],
                            Tail(data), created_bags \cup {bag})
             ELSE seed_bags(s, Tail(data), created_bags \cup found)

RECURSIVE seed_products(_, _)
seed_products(s, data) ==
    IF data = <<>> THEN s
    ELSE LET product_data == Head(data) IN
         IF \E p \in s.products : p.name = product_data.name
         THEN seed_products(s, Tail(data))
         ELSE seed_products(
                [s EXCEPT !.products = @ \cup
                             {[id |-> s.seq.product, name |-> product_data.name,
                               type |-> product_data.type,
                               minimum_stock |-> product_data.minimum_stock]},
                          !.seq = [@ EXCEPT !.product = @ + 1]],
                Tail(data))

\* The item loop: a seed Item is added to its bag, created or found, when the
\* bag holds no Item of that name and size.
RECURSIVE seed_items(_, _, _)
seed_items(s, data, created_bags) ==
    IF data = <<>> THEN s
    ELSE LET item_data == Head(data)
             bag == CHOOSE b \in created_bags : b.name = item_data.bag
             product == {p \in s.products : p.name = item_data.name}
             product_id == IF product = {} THEN NoId
                           ELSE (CHOOSE p \in product : TRUE).id
         IN  IF ~(\E b \in created_bags : b.name = item_data.bag)
             THEN seed_items(s, Tail(data), created_bags)
             ELSE IF \E i \in s.items : /\ i.name = item_data.name
                                         /\ i.bag_id = bag.id
                                         /\ i.size = item_data.size
             THEN seed_items(s, Tail(data), created_bags)
             ELSE seed_items(
                    [s EXCEPT !.items = @ \cup
                                 {NewItem(s.seq.item, item_data.name,
                                          item_data.type, None, item_data.size,
                                          item_data.quantity, Expiry, bag.id,
                                          product_id)},
                              !.seq = [@ EXCEPT !.item = @ + 1]],
                    Tail(data), created_bags)

RECURSIVE seed_minimums(_, _, _)
seed_minimums(s, data, created_bags) ==
    IF data = <<>> THEN s
    ELSE LET minimum_data == Head(data)
             bag == CHOOSE b \in created_bags : b.name = minimum_data.bag
             product == CHOOSE p \in s.products : p.name = minimum_data.product
         IN  IF ~(\E b \in created_bags : b.name = minimum_data.bag)
             THEN seed_minimums(s, Tail(data), created_bags)
             ELSE IF \E m \in s.bag_minimums : /\ m.bag_id = bag.id
                                                /\ m.product_id = product.id
             THEN seed_minimums(s, Tail(data), created_bags)
             ELSE seed_minimums(
                    [s EXCEPT !.bag_minimums = @ \cup
                                 {[id |-> s.seq.minimum, bag_id |-> bag.id,
                                   product_id |-> product.id,
                                   minimum_quantity |-> minimum_data.minimum]},
                              !.seq = [@ EXCEPT !.minimum = @ + 1]],
                    Tail(data), created_bags)

\* The whole seeding, committed at its end.
seed(s) ==
    LET with_bags == seed_bags(s, bags_data, {})
        with_products == seed_products(with_bags.s, products_data)
        with_items == seed_items(with_products, items_data,
                                 with_bags.created_bags)
    IN  Outcome(seed_minimums(with_items, bag_minimums_data,
                              with_bags.created_bags),
                "ok", NoId, FALSE)

\* The application is restarted between bag requests.
Reseed ==
    /\ MayRequestBag
    /\ Served("reseed", NoId, seed(DB))

SeedNext == BagNext \/ Reseed

SeedSpec == Init /\ [][SeedNext]_vars

\* The application is restarted between stock movements and undos.
Restart ==
    /\ MayRequest
    /\ Served("reseed", NoId, seed(DB))

RestartNext == Transfer \/ Usage \/ Wastage \/ Undo \/ Restart

RestartSpec == Init /\ [][RestartNext]_vars

\* -------------------------------------------------------- consolidation
\* consolidate_items.py.  The groups of Items of one bag that agree on name,
\* type, brand, size and expiry_date and count more than one row.
duplicate_groups(its) ==
    {g \in {{j \in its : /\ SameKey(j, i.name, i.type, i.brand, i.size,
                                      i.expiry_date)
                          /\ j.bag_id = i.bag_id} : i \in its} :
       Cardinality(g) > 1}

\* The row of a group that is dropped instead of kept (for sensitivity).
newest_item(duplicates) ==
    CHOOSE i \in duplicates : \A j \in duplicates : j.id <= i.id

\* duplicates[0] of the group ordered by Item.id.
primary_item(duplicates) ==
    CHOOSE i \in duplicates : \A j \in duplicates : i.id <= j.id

\* The body of the loop for one group: the primary row takes the total, the
\* others are deleted, one 'consolidation' movement is logged.
consolidate_group(s, duplicates, t) ==
    LET primary == primary_item(duplicates)
        total_quantity == SumQty(duplicates)
        movement == NewMovement(s.seq.movement, primary, total_quantity,
                                "consolidation", None,
                                BagName(s, primary.bag_id),
                                "Consolidated duplicate entries", None, t)
    IN  [s EXCEPT !.items = (@ \ duplicates)
                              \cup {[primary EXCEPT !.quantity = total_quantity]},
                  !.movements = @ \cup {movement},
                  !.seq = [@ EXCEPT !.movement = @ + 1]]

RECURSIVE consolidate_loop(_, _, _)
consolidate_loop(s, groups, t) ==
    IF groups = <<>> THEN s
    ELSE consolidate_loop(consolidate_group(s, Head(groups), t), Tail(groups), t)

\* The groups come back from the GROUP BY query in no stated order.
consolidate_duplicate_items(s, t) ==
    {Outcome(consolidate_loop(s, order, t), "ok", NoId, FALSE) :
       order \in Orders(duplicate_groups(s.items))}

\* The script is run on a database the bag requests have left; it is not run
\* twice in a row.
Consolidate ==
    /\ last.result \in {"none", "ok"} /\ last.op # "consolidate"
    /\ \E o \in consolidate_duplicate_items(DB, Now) :
         Served("consolidate", NoId, o)

ConsolidateNext == BagNext \/ Consolidate

ConsolidateSpec == Init /\ [][ConsolidateNext]_vars

\* ------------------------------------------------- box/piece tracking
\* The stock methods of class Item (src/models.py) on one Item object.
\* Item.total_pieces.
total_pieces(i) ==
    IF i.units_per_box # 0
    THEN i.boxes * i.units_per_box + i.loose_pieces
    ELSE i.loose_pieces

\* Rounding the boxes to break down instead of up (for sensitivity).
boxes_rounded_down(remaining, units_per_box) == remaining \div units_per_box

boxes_to_break(remaining, units_per_box) ==
    (remaining + units_per_box - 1) \div units_per_box

\* A stock check that lets every removal through (for sensitivity).
never_short(i, pieces_to_remove) == FALSE

not_enough_stock(i, pieces_to_remove) == pieces_to_remove > total_pieces(i)

\* What a method call leaves: the object's attributes and how the call ended.
\* An exception leaves the attributes as assigned so far.
Returned(i, result) == [item |-> i, result |-> result]

\* Item.add_stock.
add_stock(i, boxes, pieces) ==
    LET added == [i EXCEPT !.boxes = @ + boxes, !.loose_pieces = @ + pieces]
    IN  Returned([added EXCEPT !.quantity = total_pieces(added)], "ok")

\* Item.remove_stock.
remove_stock(i, pieces_to_remove) ==
    IF not_enough_stock(i, pieces_to_remove)
    THEN Returned(i, "Not enough stock available")
    ELSE LET remaining == IF i.loose_pieces >= pieces_to_remove THEN 0
                          ELSE pieces_to_remove - i.loose_pieces
             drained == [i EXCEPT !.loose_pieces =
                            IF @ >= pieces_to_remove THEN @ - pieces_to_remove
                            ELSE 0]
             to_break == boxes_to_break(remaining, i.units_per_box)
             broken == [drained EXCEPT
                          !.boxes = @ - to_break,
                          !.loose_pieces = to_break * i.units_per_box - remaining]
         IN  IF remaining > 0 /\ i.units_per_box # 0
             THEN IF to_break > drained.boxes
                  THEN Returned(drained, "Not enough boxes to break")
                  ELSE Returned([broken EXCEPT !.quantity = total_pieces(broken)],
                                "ok")
             ELSE Returned([drained EXCEPT !.quantity = total_pieces(drained)],
                           "ok")

\* A box check that also refuses the last box (for sensitivity).
more_boxes_than(i, boxes_to_remove) == i.boxes > boxes_to_remove

\* Item.can_remove_boxes.
can_remove_boxes(i, boxes_to_remove) == i.boxes >= boxes_to_remove

\* Item.remove_boxes.
remove_boxes(i, boxes_to_remove) ==
    IF ~can_remove_boxes(i, boxes_to_remove)
    THEN Returned(i, "Not enough full boxes available")
    ELSE LET taken == [i EXCEPT !.boxes = @ - boxes_to_remove]
         IN  Returned([taken EXCEPT !.quantity = total_pieces(taken)], "ok")

\* The arguments the calls are made with.
UnitsPerBox == {0, 2, 100}
PieceArgs == (0..(2 * MaxBoxes + MaxLoose + 1)) \cup {150, 201, 204}
BoxArgs == 0..(MaxBoxes + 1)

\* add_stock does not check the sign of what it is handed.
StockArgs(most) == (-1)..most

Tables ==
    <<items, bags, products, bag_minimums, movements, undo_actions,
      permanent_deletions, audits, seq, clock, last, prev, pre, pre2, nops,
      nundos, inflight>>

\* One call on the object: its attributes before the call are remembered.
Called(call, boxes_arg, arg, r) ==
    /\ batch' = [r.item EXCEPT
                   !.call = call, !.arg = arg, !.boxes_arg = boxes_arg,
                   !.result = r.result,
                   !.before = [boxes |-> batch.boxes,
                               loose_pieces |-> batch.loose_pieces,
                               quantity |-> batch.quantity],
                   !.calls = @ + 1]
    /\ UNCHANGED Tables

MayCall == batch.pc = "item" /\ batch.calls < MaxCalls

\* An Item is constructed for a product with or without box tracking.
CreateItem ==
    /\ batch.pc = "none"
    /\ \E u \in UnitsPerBox :
         batch' = [NoBatch EXCEPT !.pc = "item", !.units_per_box = u]
    /\ UNCHANGED Tables

AddStock ==
    /\ MayCall
    /\ \E boxes \in StockArgs(MaxBoxes), pieces \in StockArgs(MaxLoose) :
         Called("add_stock", boxes, pieces, add_stock(batch, boxes, pieces))

RemoveStock ==
    /\ MayCall
    /\ \E n \in PieceArgs : Called("remove_stock", 0, n, remove_stock(batch, n))

RemoveBoxes ==
    /\ MayCall
    /\ \E k \in BoxArgs : Called("remove_boxes", k, 0, remove_boxes(batch, k))

StockNext == CreateItem \/ AddStock \/ RemoveStock \/ RemoveBoxes

StockSpec == Init /\ [][StockNext]_vars

\* ------------------------------------------------------ product totals
\* An Item row of the tables as the Item object the properties of class
\* Product read.  The routes and the seeding write Item.quantity only: boxes
\* and loose_pieces keep their column default 0, and no Product is given
\* units_per_box.
AsObject(i) ==
    [boxes |-> 0, loose_pieces |-> 0, quantity |-> i.quantity,
     units_per_box |-> 0]

RECURSIVE SumPieces(_)
SumPieces(rows) ==
    IF rows = {} THEN 0
    ELSE LET r == CHOOSE x \in rows : TRUE
         IN  total_pieces(AsObject(r)) + SumPieces(rows \ {r})

\* Product.total_quantity.
total_quantity(product, its) ==
    SumPieces({i \in its : /\ i.product_id = product.id
                           /\ total_pieces(AsObject(i)) > 0})

\* Product.is_low_stock.
is_low_stock(product, its) ==
    total_quantity(product, its) <= product.minimum_stock

\* ================================================================ claims
\* Vocabulary of the properties below.
\* The quantity held under the key of record `k` at bag `bag_id`.
Held(its, k, bag_id) ==
    SumQty({i \in its : /\ SameKey(i, k.name, k.type, k.brand, k.size,
                                    k.expiry_date)
                        /\ i.bag_id = bag_id})

Ids(rows) == {r.id : r \in rows}

\* The UndoAction the last request created or selected, and its payload.
LastAction == Row(undo_actions, last.action)
LastData == LastAction.action_data

LastOk(op) == last.op = op /\ last.result = "ok"
PrevOk(op) == prev.op = op /\ prev.result = "ok"

\* What the claims call "changes nothing".
StockUnchanged ==
    /\ items = pre.items
    /\ movements = pre.movements
    /\ undo_actions = pre.undo_actions

AllUnchanged ==
    /\ StockUnchanged
    /\ bags = pre.bags
    /\ bag_minimums = pre.bag_minimums
    /\ permanent_deletions = pre.permanent_deletions

\* ---------------------------------------------------------------- C1
\* C1: in every reachable state every Item's quantity is >= 0.
C1_QuantitiesNonNegative == \A i \in items : i.quantity >= 0

\* ---------------------------------------------------------------- C2
\* The record the transfer took from, and the records of its key in the
\* destination bag, in an item table.
TransferSourceQty(its) == SumQty(Get(its, LastData.item_id))
TransferDestQty(its) ==
    SumQty({i \in its : /\ SameKey(i, LastData.item_name, LastData.item_type,
                                    LastData.item_brand, LastData.item_size,
                                    LastData.item_expiry_date)
                        /\ i.bag_id = LastData.to_bag_id})

\* C2: a successful single transfer of q units conserves the quantity of the
\* source record (0 when deleted) plus the quantity under the same key in the
\* destination bag (0 when absent); the source gives exactly q.
C2_TransferConserves ==
    LastOk("transfer") =>
        /\ TransferSourceQty(items) + TransferDestQty(items)
             = TransferSourceQty(pre.items) + TransferDestQty(pre.items)
        /\ TransferSourceQty(items)
             = TransferSourceQty(pre.items) - LastData.quantity
        /\ LastData.from_bag_id # LastData.to_bag_id

\* A transfer that merged into an existing destination record.
C2_Witness ==
    /\ LastOk("transfer")
    /\ ~LastData.new_item_created
    /\ TransferDestQty(pre.items) > 0

\* ---------------------------------------------------------------- C3
\* An undo directly after the same user's successful single transfer.
UndoAfterTransfer ==
    /\ LastOk("undo") /\ PrevOk("transfer")
    /\ last.user = prev.user
    /\ last.action = prev.action

\* C3: after a successful transfer and the same user's immediate undo, every
\* key holds at every bag what it held before the transfer, no record the
\* destination bag had before the transfer is deleted, and the transfer's
\* MovementHistory entry is gone.
C3_TransferUndoRestores ==
    UndoAfterTransfer =>
        /\ \A k \in items \cup pre2.items :
              Held(items, k, k.bag_id) = Held(pre2.items, k, k.bag_id)
        /\ \A i \in pre2.items :
              i.bag_id = LastData.to_bag_id => i.id \in Ids(items)
        /\ Ids(movements) \cap (Ids(pre.movements) \ Ids(pre2.movements)) = {}

\* ---------------------------------------------------------------- C4
\* The scenario of C4 in the item table before the transfer with payload `d`:
\* the source bag holds one record, the destination bag none, and less than
\* the record's quantity is transferred.
OneRecordToEmptyBag(its, d) ==
    /\ Cardinality({i \in its : i.bag_id = d.from_bag_id}) = 1
    /\ {i \in its : i.bag_id = d.to_bag_id} = {}
    /\ 0 < d.quantity /\ d.quantity < d.original_source_quantity

PrevData == Row(undo_actions, prev.action).action_data

\* C4: in that scenario the transfer leaves the source record at n - q, creates
\* exactly one record of quantity q in the destination bag, appends exactly one
\* 'transfer' movement (q, from A, to B) and exactly one unused UndoAction; the
\* same user's following undo succeeds on that action, returns the source
\* record to n, deletes the new record, removes the movement and marks the
\* UndoAction used.
C4_TransferToEmptyBagAndUndo ==
    /\ (LastOk("transfer") /\ OneRecordToEmptyBag(pre.items, LastData)) =>
          LET d == LastData
              source == Row(pre.items, d.item_id)
              arrived == {i \in items : i.bag_id = d.to_bag_id}
              logged == {m \in movements : m.id \notin Ids(pre.movements)}
              recorded == {a \in undo_actions : a.id \notin Ids(pre.undo_actions)}
          IN  /\ {i \in items : i.bag_id = d.from_bag_id}
                   = {[source EXCEPT !.quantity = source.quantity - d.quantity]}
              /\ Cardinality(arrived) = 1
              /\ \A j \in arrived :
                   /\ j.quantity = d.quantity
                   /\ j.id \notin Ids(pre.items)
                   /\ SameKey(j, source.name, source.type, source.brand,
                              source.size, source.expiry_date)
              /\ Cardinality(logged) = 1
              /\ \A m \in logged :
                   /\ m.movement_type = "transfer" /\ m.quantity = d.quantity
                   /\ m.from_bag = BagName(pre, d.from_bag_id)
                   /\ m.to_bag = BagName(pre, d.to_bag_id)
              /\ pre.movements \subseteq movements
              /\ recorded = {LastAction}
              /\ ~LastAction.is_used /\ LastAction.user_id = last.user
    /\ (/\ last.op = "undo" /\ PrevOk("transfer") /\ last.user = prev.user
        /\ OneRecordToEmptyBag(pre2.items, PrevData)) =>
          LET d == PrevData IN
          /\ last.result = "ok" /\ last.action = prev.action
          /\ {i \in items : i.bag_id = d.from_bag_id}
               = {i \in pre2.items : i.bag_id = d.from_bag_id}
          /\ {i \in items : i.bag_id = d.to_bag_id} = {}
          /\ Ids(movements) \cap (Ids(pre.movements) \ Ids(pre2.movements)) = {}
          /\ Row(undo_actions, prev.action).is_used

\* The scenario, transferred and undone.
C4_Witness ==
    /\ UndoAfterTransfer
    /\ OneRecordToEmptyBag(pre2.items, LastData)

\* ---------------------------------------------------------------- C5
\* C5: an undo request directly after the same user's successful undo reports
\* 'No actions to undo' and changes no Item, MovementHistory or UndoAction row.
C5_SecondUndoFindsNothing ==
    (last.op = "undo" /\ PrevOk("undo") /\ last.user = prev.user) =>
        last.result = "nothing" /\ StockUnchanged

\* ---------------------------------------------------------------- C6
\* C6: the action an undo request reverses has the greatest timestamp among
\* all UndoActions, used or unused, recorded for that user.
C6_UndoReversesNewest ==
    LastOk("undo") =>
        \A b \in undo_actions :
            b.user_id = last.user => b.timestamp <= LastAction.timestamp

\* ---------------------------------------------------------------- C7
\* C7: every successful request other than undo that changes stock appends,
\* in the same commit, at least one MovementHistory entry and at least one
\* unused UndoAction owned by the acting user (when the handler reads one).
C7_MutationsAreRecorded ==
    (last.result = "ok" /\ last.op # "undo" /\ items # pre.items) =>
        /\ \E m \in movements : m.id \notin Ids(pre.movements)
        /\ \E a \in undo_actions :
             /\ a.id \notin Ids(pre.undo_actions)
             /\ ~a.is_used
             /\ last.user # NoId => a.user_id = last.user

\* ---------------------------------------------------------------- C8
\* C8: an undo request that selected an action either applies every step of
\* its reversal and marks it used, or changes no row and leaves it unused.
C8_UndoAllOrNothing ==
    (last.op = "undo" /\ last.action # NoId) =>
        \/ last.result = "ok" /\ ~last.skipped /\ LastAction.is_used
        \/ AllUnchanged /\ ~LastAction.is_used

\* ---------------------------------------------------------------- C9
\* An Item id of the payload of action `a` resolves to no Item of `its`.
PayloadItemMissing(a, its) ==
    LET d == a.action_data IN
    CASE a.action_type = "transfer" ->
           \/ ~d.source_item_deleted /\ d.item_id \notin Ids(its)
           \/ ~d.new_item_created /\ d.existing_item_id \notin Ids(its)
      [] a.action_type = "usage" -> d.item_id \notin Ids(its)
      [] a.action_type = "delete_bag" -> ~(d.transferred_items \subseteq Ids(its))
      [] OTHER -> FALSE

\* C9: an undo whose payload names an Item that no longer exists reports
\* failure, changes nothing and leaves the UndoAction unused.
C9_MissingItemFailsUndo ==
    (/\ last.op = "undo" /\ last.action # NoId
     /\ PayloadItemMissing(LastAction, pre.items)) =>
        /\ last.result # "ok"
        /\ AllUnchanged
        /\ ~LastAction.is_used

\* --------------------------------------------------------------- C10
\* C10: at every reachable state, a usage, wastage or single-transfer request
\* for more than the Item holds is rejected with the session untouched, and a
\* request rejected for insufficient stock leaves every Item, MovementHistory
\* and UndoAction row as it was.
C10_InsufficientStockRejected ==
    /\ \A i \in items, q \in 1..(MaxQty + 1) :
         q > i.quantity =>
           /\ \A u \in Users, p \in Patients :
                \A o \in handle_usage(DB, u, i.id, q, p, Now) :
                  o.result # "ok" /\ o.s = DB
           /\ \A o \in handle_wastage(DB, i.id, q, Now) :
                o.result # "ok" /\ o.s = DB
           /\ \A u \in Users, b \in BagIds :
                \A o \in handle_transfer(DB, u, i.id, b, q, Now) :
                  o.result # "ok" /\ o.s = DB
    /\ last.result = "insufficient" => StockUnchanged /\ last.action = NoId

\* A request turned down for insufficient stock.
C10_Witness ==
    /\ last.op \in {"usage", "wastage", "transfer"}
    /\ last.result = "insufficient"
    /\ \E i \in items : i.quantity < MaxQty

\* --------------------------------------------------------------- C11
\* The two requests of RaceSpec that went for the Item `i` of the seed.
RacersFor(i) == {r \in Slots : inflight[r].item_id = i.id}

\* C11: when two usage/wastage requests against the same Item together ask
\* for more than it holds, at most one of them succeeds, and the quantities of
\* the MovementHistory entries they create sum to at most what the Item held.
C11_RacingDecrementsSerialized ==
    \A i \in SeedItems :
      LET done == {r \in RacersFor(i) : inflight[r].pc = "done"}
          logged == {m \in movements : \E r \in done : m.id = inflight[r].movement}
      IN  /\ (/\ RacersFor(i) = Slots
              /\ inflight[1].quantity + inflight[2].quantity > i.quantity)
                => Cardinality(done) <= 1
          /\ SumQty(logged) <= i.quantity

\* --------------------------------------------------------------- C12
\* C12: after a successful batched transfer, the same user's immediate undo
\* succeeds, gives every key at every bag the quantity it had before the
\* batch, removes the movements the batch created and marks the
\* 'multi_transfer' UndoAction used.
C12_BatchedTransferUndone ==
    (last.op = "undo" /\ PrevOk("multi_transfer") /\ last.user = prev.user) =>
        /\ last.result = "ok" /\ last.action = prev.action
        /\ \A k \in items \cup pre2.items :
             Held(items, k, k.bag_id) = Held(pre2.items, k, k.bag_id)
        /\ Ids(movements) \cap (Ids(pre.movements) \ Ids(pre2.movements)) = {}
        /\ Row(undo_actions, prev.action).is_used

\* ---------------------------------------------------------------- C13
\* An undo directly after the same user's successful usage.
UndoAfterUsage ==
    /\ last.op = "undo" /\ PrevOk("usage")
    /\ last.user = prev.user

\* C13: after a successful usage of q units and the same user's immediate
\* undo, the undo succeeds on that usage, the Item holds exactly q more than
\* after the usage (its quantity before the usage), and the usage's
\* MovementHistory entry is gone.
C13_UsageUndoRestores ==
    UndoAfterUsage =>
        /\ last.result = "ok" /\ last.action = prev.action
        /\ PrevData.quantity > 0
        /\ \E i \in Get(items, PrevData.item_id) :
              /\ i.quantity = Row(pre.items, i.id).quantity + PrevData.quantity
              /\ i.quantity = Row(pre2.items, i.id).quantity
        /\ \A m \in pre.movements \ pre2.movements :
              m.movement_type = "usage" /\ m.id \notin Ids(movements)
        /\ pre.movements \ pre2.movements # {}

\* The undo of a usage that had emptied the record.
C13_Witness ==
    /\ UndoAfterUsage /\ last.result = "ok"
    /\ Row(pre.items, PrevData.item_id).quantity = 0
    /\ Row(items, PrevData.item_id).quantity = PrevData.quantity

\* ---------------------------------------------------------------- C14
\* An undo directly after the same user's successful manual addition.
UndoAfterAddition ==
    /\ last.op = "undo" /\ PrevOk("add_item")
    /\ last.user = prev.user

\* C14: after a successful manual addition and the same user's immediate
\* undo, the undo succeeds on that addition; an Item the addition created is
\* deleted; an Item the addition merged into keeps its record and holds what
\* it held before the addition (exactly the added quantity less); the
\* addition's MovementHistory entry is gone in both cases.
C14_AdditionUndone ==
    UndoAfterAddition =>
        /\ last.result = "ok" /\ last.action = prev.action
        /\ \A i \in pre.items :
              IF i.id \notin Ids(pre2.items)
              THEN i.id \notin Ids(items)
              ELSE /\ i.id \in Ids(items)
                   /\ Row(items, i.id).quantity = Row(pre2.items, i.id).quantity
        /\ Ids(movements) \cap (Ids(pre.movements) \ Ids(pre2.movements)) = {}

\* ---------------------------------------------------------------- C15
\* The manual addition recorded as UndoAction `a` created its Product: the
\* Product is not a seeded one and no earlier addition refers to it.
CreatedProduct(a) ==
    /\ a.action_type = "add_item"
    /\ a.action_data.product_id \notin Ids(SeedProducts)
    /\ \A b \in undo_actions :
          (b.action_type = "add_item"
             /\ b.action_data.product_id = a.action_data.product_id)
            => b.id >= a.id

\* C15: when an undo reverses a manual addition that created a new Product,
\* the Product is deleted if and only if no Item references it once the added
\* Item is removed.
C15_CreatedProductUndone ==
    (LastOk("undo") /\ CreatedProduct(LastAction)) =>
        (LastData.product_id \notin Ids(products)
           <=> ~(\E i \in items : i.product_id = LastData.product_id))

\* ---------------------------------------------------------------- C16
\* An undo directly after the same user's successful bag deletion.
UndoAfterDeleteBag ==
    /\ last.op = "undo" /\ PrevOk("delete_bag")
    /\ last.user = prev.user

\* The Items the deletion moved: those of the deleted bag that sit elsewhere
\* after it.
MovedByDeletion ==
    {i \in pre2.items : /\ i.bag_id = PrevData.bag_id
                         /\ Row(pre.items, i.id).bag_id # i.bag_id}

\* C16: after a bag deletion and the same user's immediate undo, the undo
\* succeeds on that deletion and a Bag with the deleted bag's name,
\* description and location exists; every Item the deletion moved to the
\* Cabinet belongs to that Bag with its quantity unchanged; every BagMinimum
\* the deletion removed exists for that Bag with the same product and
\* minimum; the deletion's auto-transfer MovementHistory entries are gone;
\* and the PermanentDeletion row of the deletion has is_restored = TRUE.
C16_BagDeletionUndone ==
    UndoAfterDeleteBag =>
        /\ last.result = "ok" /\ last.action = prev.action
        /\ \E b \in bags :
              /\ b.name = PrevData.bag_name
              /\ b.description = PrevData.bag_description
              /\ b.location = PrevData.bag_location
              /\ \A i \in MovedByDeletion :
                    \E j \in Get(items, i.id) :
                       j.bag_id = b.id /\ j.quantity = i.quantity
              /\ \A m \in pre2.bag_minimums \ pre.bag_minimums :
                    \E n \in bag_minimums :
                       /\ n.bag_id = b.id
                       /\ n.product_id = m.product_id
                       /\ n.minimum_quantity = m.minimum_quantity
        /\ Ids(movements) \cap (Ids(pre.movements) \ Ids(pre2.movements)) = {}
        /\ \A p \in pre.permanent_deletions :
              p.id \notin Ids(pre2.permanent_deletions)
                => Row(permanent_deletions, p.id).is_restored

\* ---------------------------------------------------------------- C17
\* An undo directly after the same user's inventory audit that recorded
\* changes.
UndoAfterAudit ==
    /\ last.op = "undo" /\ PrevOk("inventory_audit")
    /\ last.user = prev.user
    /\ prev.action # NoId

\* The quantity held under the (name, type, size) key of change `c`.
KeySum(its, c) ==
    SumQty({i \in its : /\ i.name = c.item_name /\ i.type = c.item_type
                        /\ i.size = c.item_size})

\* C17: after an inventory audit and the same user's immediate undo, the undo
\* succeeds on that audit and every (name, type, size) key the audit changed
\* holds in total what it held before the audit, whatever current_qty and
\* new_count the form carried.
C17_AuditUndoRestoresSums ==
    UndoAfterAudit =>
        /\ last.result = "ok" /\ last.action = prev.action
        /\ \A k \in 1..Len(PrevData.changes) :
              KeySum(items, PrevData.changes[k])
                = KeySum(pre2.items, PrevData.changes[k])

\* ---------------------------------------------------------------- C18
\* C18: after an undo reversed an inventory audit, none of the
\* BULK_WEEKLY_CHECK_* MovementHistory entries the audit created is left.
C18_AuditEntriesRemoved ==
    (UndoAfterAudit /\ LastOk("undo") /\ last.action = prev.action) =>
        \A m \in pre.movements \ pre2.movements :
           m.movement_type \in AuditTypes => m.id \notin Ids(movements)

\* ---------------------------------------------------------------- C19
\* The MovementHistory entries of `rows` written by the request that recorded
\* UndoAction `a`: those stamped during that request.
CreatedBy(a, rows) ==
    {m \in rows : m.timestamp \in {a.timestamp - 1, a.timestamp}}

\* C19: a successful undo leaves every MovementHistory entry that the action
\* being undone did not create present and unmodified.
C19_UndoKeepsOtherEntries ==
    LastOk("undo") =>
        \A m \in pre.movements \ CreatedBy(LastAction, pre.movements) :
           m \in movements

\* ---------------------------------------------------------------- C20
\* C20: in every reachable state every 'transfer' MovementHistory entry has
\* from_bag and to_bag set, every 'usage' or 'wastage' entry has from_bag set
\* and to_bag unset, and every 'addition' entry has to_bag set and from_bag
\* unset.
C20_MovementBagsByType ==
    \A m \in movements :
       /\ m.movement_type = "transfer"
            => m.from_bag # None /\ m.to_bag # None
       /\ m.movement_type \in {"usage", "wastage"}
            => m.from_bag # None /\ m.to_bag = None
       /\ m.movement_type = "addition"
            => m.from_bag = None /\ m.to_bag # None

\* The log holds an entry with only a source and an entry with only a
\* destination at once.
C20_Witness ==
    /\ \E m \in movements : m.movement_type \in {"usage", "wastage"}
    /\ \E m \in movements : m.movement_type = "addition"

\* ---------------------------------------------------------------- C21
\* The duplicate group of the table before the last request that record `i`
\* belongs to (empty when `i` has no duplicate).
GroupOf(i) == {g \in duplicate_groups(pre.items) : i \in g}

\* C21: consolidate_duplicate_items leaves of every group of N >= 2 Items of
\* one bag with the same (name, type, brand, size, expiry_date) exactly the
\* Item with the lowest id, holding the sum of the group's quantities, and
\* logs exactly one 'consolidation' movement for the group; an Item outside
\* every group is unchanged.
C21_ConsolidationMerges ==
    LastOk("consolidate") =>
        /\ \A g \in duplicate_groups(pre.items) :
              /\ \E i \in g :
                    /\ \A j \in g : i.id <= j.id
                    /\ [i EXCEPT !.quantity = SumQty(g)] \in items
                    /\ \A j \in g \ {i} : j.id \notin Ids(items)
              /\ Cardinality(
                    {m \in movements \ pre.movements :
                       /\ m.movement_type = "consolidation"
                       /\ \E i \in g : /\ m.item_name = i.name
                                        /\ m.item_type = i.type
                                        /\ m.item_size = i.size
                                        /\ m.to_bag = BagName(pre, i.bag_id)
                                        /\ m.quantity = SumQty(g)}) = 1
        /\ Cardinality(movements \ pre.movements)
             = Cardinality(duplicate_groups(pre.items))
        /\ pre.movements \subseteq movements
        /\ \A i \in pre.items : GroupOf(i) = {} => i \in items
        /\ Ids(items) \subseteq Ids(pre.items)
        /\ duplicate_groups(items) = {}

\* A consolidation of a group of three rows.
C21_Witness ==
    /\ LastOk("consolidate")
    /\ \E g \in duplicate_groups(pre.items) : Cardinality(g) = 3

\* ---------------------------------------------------------------- C22
\* The operations C22 names.
MergingOps ==
    {"add_item", "transfer", "multi_transfer", "quick_restock", "delete_bag",
     "undo"}

\* C22: a manual addition, single or batched transfer, quick restock, bag
\* deletion or undo served on a table in which no two Items of one bag share
\* (name, type, brand, size, expiry_date) leaves no two such Items.
C22_NoDuplicateBatches ==
    (last.op \in MergingOps /\ duplicate_groups(pre.items) = {})
        => duplicate_groups(items) = {}

\* ---------------------------------------------------------------- C23
\* The pieces the object held before the last call, computed from the claim's
\* b, p and u.
PiecesBefore ==
    IF batch.units_per_box # 0
    THEN batch.before.boxes * batch.units_per_box + batch.before.loose_pieces
    ELSE batch.before.loose_pieces

PiecesNow ==
    IF batch.units_per_box # 0
    THEN batch.boxes * batch.units_per_box + batch.loose_pieces
    ELSE batch.loose_pieces

\* The last call was remove_stock(n) on b >= 0 boxes of u > 0 units and
\* p >= 0 loose pieces, with 0 <= n <= b*u + p.
RemovedWithinStock ==
    /\ batch.call = "remove_stock"
    /\ batch.units_per_box > 0
    /\ batch.before.boxes >= 0 /\ batch.before.loose_pieces >= 0
    /\ 0 <= batch.arg /\ batch.arg <= PiecesBefore

\* C23: remove_stock(n) within the stock succeeds; it takes from the loose
\* pieces alone when they suffice, and otherwise breaks exactly
\* ceil((n - p) / u) boxes; the total falls by exactly n and boxes and
\* loose_pieces stay >= 0.  With b=2, p=3, u=100: n=150 leaves 0 boxes and
\* 53 loose, n=201 leaves 0 boxes and 2 loose.
C23_RemoveStockBreaksBoxes ==
    RemovedWithinStock =>
        LET b == batch.before.boxes
            p == batch.before.loose_pieces
            u == batch.units_per_box
            n == batch.arg
            broken == b - batch.boxes
        IN  /\ batch.result = "ok"
            /\ PiecesNow = PiecesBefore - n
            /\ batch.boxes >= 0 /\ batch.loose_pieces >= 0
            /\ n <= p => (broken = 0 /\ batch.loose_pieces = p - n)
            /\ n > p => (broken * u >= n - p /\ (broken - 1) * u < n - p)
            /\ (b = 2 /\ p = 3 /\ u = 100 /\ n = 150)
                  => (batch.boxes = 0 /\ batch.loose_pieces = 53)
            /\ (b = 2 /\ p = 3 /\ u = 100 /\ n = 201)
                  => (batch.boxes = 0 /\ batch.loose_pieces = 2)

\* The worked example: 150 pieces taken from 2 boxes of 100 and 3 loose.
C23_Witness ==
    /\ RemovedWithinStock
    /\ batch.before.boxes = 2 /\ batch.before.loose_pieces = 3
    /\ batch.units_per_box = 100 /\ batch.arg = 150
    /\ batch.boxes = 0 /\ batch.loose_pieces = 53

\* ---------------------------------------------------------------- C24
\* The last call raised.
CallFailed == batch.call # "none" /\ batch.result # "ok"

BatchUnchanged ==
    /\ batch.boxes = batch.before.boxes
    /\ batch.loose_pieces = batch.before.loose_pieces
    /\ batch.quantity = batch.before.quantity

\* C24: remove_stock(n) with n above the pieces held fails, and a failed
\* remove_stock, whichever error it raised, leaves boxes, loose_pieces and
\* quantity as they were.
C24_RemoveStockFailsClean ==
    batch.call = "remove_stock" =>
        /\ batch.arg > PiecesBefore => CallFailed
        /\ CallFailed => BatchUnchanged

\* 204 pieces asked of 2 boxes of 100 and 3 loose.
C24_Witness ==
    /\ batch.call = "remove_stock" /\ CallFailed
    /\ batch.before.boxes = 2 /\ batch.before.loose_pieces = 3
    /\ batch.units_per_box = 100 /\ batch.arg = 204

\* ---------------------------------------------------------------- C25
\* C25: remove_boxes(k) with k above the boxes held fails and leaves boxes,
\* loose_pieces and quantity as they were; otherwise it lowers boxes by
\* exactly k, leaves loose_pieces alone and sets quantity to the new total.
C25_RemoveBoxes ==
    batch.call = "remove_boxes" =>
        IF batch.boxes_arg > batch.before.boxes
        THEN CallFailed /\ BatchUnchanged
        ELSE /\ batch.result = "ok"
             /\ batch.boxes = batch.before.boxes - batch.boxes_arg
             /\ batch.loose_pieces = batch.before.loose_pieces
             /\ batch.quantity = PiecesNow

\* The last box of an Item with loose pieces is removed.
C25_Witness ==
    /\ batch.call = "remove_boxes" /\ batch.result = "ok"
    /\ batch.boxes_arg > 0 /\ batch.boxes = 0
    /\ batch.loose_pieces > 0 /\ batch.units_per_box > 0

\* ---------------------------------------------------------------- C26
\* C26: in every state reached by bag add, edit, delete and undo requests a
\* Bag named 'Cabinet' exists, and the bag that served as the Cabinet before
\* a request is still there after it.
C26_CabinetAlwaysExists ==
    /\ \E b \in bags : b.name = CabinetName
    /\ \A b \in pre.bags : b.name = CabinetName => b.id \in Ids(bags)

\* ---------------------------------------------------------------- C27
\* C27: a bag deletion succeeds only on a bag whose Items hold no stock at
\* all; a bag holding an Item with quantity > 0 is not deleted.
C27_DeleteOnlyEmptyBags ==
    LastOk("delete_bag") =>
        \A i \in pre.items : i.bag_id = LastData.bag_id => i.quantity <= 0

\* ---------------------------------------------------------------- C28
\* A bag of this name was deleted by a user and the deletion has not been
\* undone when the seeding starts.
DeletedNotRestored(name) ==
    \E p \in pre.permanent_deletions :
       p.entity_type = "bag" /\ p.entity_name = name /\ ~p.is_restored

\* C28: a run of the startup seeding creates no Bag under the name of a
\* deleted default bag whose deletion has not been undone, and no Item and no
\* BagMinimum for a bag of that name.
C28_SeedingKeepsDeletions ==
    last.op = "reseed" =>
        /\ \A b \in bags :
              b.id \notin Ids(pre.bags) => ~DeletedNotRestored(b.name)
        /\ \A i \in items :
              i.id \notin Ids(pre.items)
                => ~DeletedNotRestored(BagName(DB, i.bag_id))
        /\ \A m \in bag_minimums :
              m.id \notin Ids(pre.bag_minimums)
                => ~DeletedNotRestored(BagName(DB, m.bag_id))

\* ---------------------------------------------------------------- C29
\* The operations that take stock from an Item.
TakingOps ==
    {"transfer", "multi_transfer", "usage", "wastage", "quick_restock",
     "inventory_audit"}

\* Operation `op` turned table `before` into `after` and brought an Item with
\* stock to quantity 0: the Item was deleted, or was kept at 0.
ZeroDeleted(op, before, after) ==
    /\ op \in TakingOps
    /\ \E i \in before : i.quantity > 0 /\ i.id \notin Ids(after)

ZeroRetained(op, before, after) ==
    /\ op \in TakingOps
    /\ \E i \in before :
          i.quantity > 0 /\ \E j \in Get(after, i.id) : j.quantity = 0

\* C29: the operations apply one zero-quantity policy: of two requests
\* served one after the other, never does one delete an Item it brought to
\* quantity 0 while the other retains one.
C29_OneZeroPolicy ==
    LET deleted == ZeroDeleted(prev.op, pre2.items, pre.items)
                     \/ ZeroDeleted(last.op, pre.items, items)
        retained == ZeroRetained(prev.op, pre2.items, pre.items)
                      \/ ZeroRetained(last.op, pre.items, items)
    IN  ~(deleted /\ retained)

\* ---------------------------------------------------------------- C30
\* The quantity held by the Items of `product` that have stock.
StockOf(product) ==
    SumQty({i \in items : i.product_id = product.id /\ i.quantity > 0})

\* C30: in every state the routes reach, Product.total_quantity is the sum
\* of the quantities of the Product's Items with positive stock, and
\* Product.is_low_stock holds exactly when that sum is <= minimum_stock.
C30_ProductTotals ==
    \A product \in products :
       /\ total_quantity(product, items) = StockOf(product)
       /\ is_low_stock(product, items) <=> StockOf(product) <= product.minimum_stock

\* ---------------------------------------------------------------- C31
\* The step is an undo request that changed the tables.
UndoApplied == last'.op = "undo" /\ clock' # clock /\ DB' # DB

\* C31: an UndoAction with is_used = TRUE keeps it in every later state, and
\* an undo request applies an inverse only for an UndoAction that was unused
\* and that it marks used, so that no inverse is applied twice.
C31_UsedIsIrreversible ==
    [][/\ \A a \in undo_actions :
            a.is_used => \E b \in undo_actions' : b.id = a.id /\ b.is_used
       /\ UndoApplied =>
            /\ last'.result = "ok"
            /\ \E a \in undo_actions :
                  /\ a.id = last'.action /\ ~a.is_used
                  /\ \E b \in undo_actions' : b.id = a.id /\ b.is_used]_vars

\* A second undo is served while an UndoAction is already used.
C31_Witness ==
    /\ LastOk("undo")
    /\ \E a \in pre.undo_actions : a.is_used /\ a.user_id = last.user

\* ---------------------------------------------------------------- C32
\* C32: an undo request of user X selects and marks used only an UndoAction
\* of X and leaves every other user's UndoAction as it was; when X has no
\* unused UndoAction the request reports that there is nothing to undo and
\* changes nothing, whatever unused actions other users have.
C32_UndoIsPerUser ==
    last.op = "undo" =>
        /\ \A a \in pre.undo_actions :
              a.user_id # last.user => a \in undo_actions
        /\ last.action # NoId => Row(undo_actions, last.action).user_id = last.user
        /\ (\A a \in pre.undo_actions : a.user_id = last.user => a.is_used)
              => /\ last.result = "nothing"
                 /\ AllUnchanged
                 /\ products = pre.products /\ audits = pre.audits

\* A user with nothing to undo asks for an undo while another user has an
\* unused UndoAction.
C32_Witness ==
    /\ last.op = "undo" /\ last.result = "nothing"
    /\ \E a \in undo_actions : ~a.is_used /\ a.user_id # last.user

\* ---------------------------------------------------------------- C33
\* The MovementHistory entries the last request appended.
NewMovements == movements \ pre.movements

\* C33: the entry logged by a successful addition, transfer, usage or wastage
\* carries as quantity the number of units the operation put into or took
\* out of the Item: the stock gained by an addition (the added amount also
\* when it merged into an existing Item), the stock lost by a usage or a
\* wastage, and what the source record gave in a transfer.
C33_MovementQuantityIsDelta ==
    /\ LastOk("add_item") =>
          \A m \in NewMovements : m.quantity = SumQty(items) - SumQty(pre.items)
    /\ (LastOk("usage") \/ LastOk("wastage")) =>
          \A m \in NewMovements : m.quantity = SumQty(pre.items) - SumQty(items)
    /\ LastOk("transfer") =>
          \A m \in NewMovements :
             m.quantity = TransferSourceQty(pre.items) - TransferSourceQty(items)

\* ---------------------------------------------------------------- C34
\* The units of the key the undone transfer moved, over all bags.
TransferredKeyTotal(its) ==
    SumQty({i \in its : SameKey(i, LastData.item_name, LastData.item_type,
                                 LastData.item_brand, LastData.item_size,
                                 LastData.item_expiry_date)})

\* A user's transfer, then a successful usage, wastage, transfer or addition
\* of somebody else, then the first user's undo of the transfer.
UndoAfterForeignRequest ==
    /\ LastOk("undo")
    /\ LastAction.action_type = "transfer"
    /\ prev.result = "ok"
    /\ prev.op \in {"usage", "wastage", "transfer", "add_item"}
    /\ prev.user # last.user

\* C34: when another user's operation came between a transfer and its undo,
\* the undo leaves the total quantity of the transferred key over all bags
\* as it was just before the undo.
C34_UndoConservesUnits ==
    UndoAfterForeignRequest =>
        TransferredKeyTotal(items) = TransferredKeyTotal(pre.items)

\* ---------------------------------------------------------------- C35
\* Request r commits its reversal of an UndoAction that another request has
\* already reversed, both having loaded it unused.
SecondReversal(r) ==
    /\ inflight[r].pc = "read" /\ inflight'[r].pc = "applied"
    /\ \E q \in Slots \ {r} : /\ inflight[q].pc = "applied"
                              /\ inflight[q].action = inflight[r].action
                              /\ inflight[q].user = inflight[r].user

\* C35: of two concurrent undo requests of one user that loaded the same
\* unused UndoAction, only one applies the inverse; in particular the one
\* that commits second creates no Item, so that a transfer whose source
\* record was deleted gets at most one restored source Item.
C35_ConcurrentUndoAppliesOnce ==
    [][\A r \in Slots : SecondReversal(r) => Ids(items') \subseteq Ids(items)]_vars

\* ---------------------------------------------------------------- C36
\* C36: a user who keeps asking for an undo while nothing else happens is
\* eventually told that there is nothing to undo, whatever types of
\* UndoAction were recorded.
C36_UndoEventuallyExhausted ==
    \A u \in Users :
       <>(last.op = "undo" /\ last.user = u /\ last.result = "nothing")

\* ---------------------------------------------------------------- C37
\* The step serves the quick-restock form (bag_id, product_id, quantity).
RestockStep(bag_id, product_id, quantity) ==
    /\ last'.op = "quick_restock" /\ last'.result = "ok" /\ clock' # clock
    /\ \E o \in quick_restock(DB, bag_id, product_id, quantity, Now) :
          o.result = "ok" /\ items' = o.s.items /\ movements' = o.s.movements

\* The stock of a product in a bag, and the Cabinet's rows of the product.
BagStock(its, bag_id, product_id) ==
    SumQty({i \in its : i.bag_id = bag_id /\ i.product_id = product_id})

CabinetRows(its, product_id) ==
    {i \in its : BagName(DB, i.bag_id) = CabinetName /\ i.product_id = product_id}

\* What a Cabinet row gave in the step.
Taken(i) == i.quantity - SumQty(Get(items', i.id))

\* C37: a quick restock of r units of a product takes from the Cabinet's
\* Items what it adds to the target bag's Items, that amount is
\* min(r, Cabinet stock of the product), no Cabinet Item goes below zero, and
\* it logs one 'transfer' entry per Cabinet Item drawn from, with the units
\* taken from that Item as its quantity.
C37_QuickRestockMovesMin ==
    [][\A bag_id \in BagIds, product_id \in Ids(products), r \in 1..(MaxQty + 1) :
         RestockStep(bag_id, product_id, r) =>
           LET rows == CabinetRows(items, product_id)
               removed == SumQty(rows) - SumQty(CabinetRows(items', product_id))
               added == BagStock(items', bag_id, product_id)
                          - BagStock(items, bag_id, product_id)
               drawn == {i \in rows : Taken(i) # 0}
               logged == movements' \ movements
           IN  /\ removed = added
               /\ removed = Min(r, SumQty(rows))
               /\ \A i \in rows : i.quantity >= 0 => i.quantity - Taken(i) >= 0
               /\ Cardinality(logged) = Cardinality(drawn)
               /\ \A i \in drawn :
                     \E m \in logged : /\ m.movement_type = "transfer"
                                       /\ m.item_name = i.name
                                       /\ m.item_size = i.size
                                       /\ m.quantity = Taken(i)]_vars

\* ---------------------------------------------------------------- C38
\* The InventoryAudit row of the last request, and what a bag holds under the
\* (name, type, size) key of change `c`.
LastAudit == CHOOSE a \in audits : a.id = pre.seq.audit

BagKeySum(its, bag_id, c) ==
    SumQty({i \in its : /\ i.bag_id = bag_id /\ i.name = c.item_name
                        /\ i.type = c.item_type /\ i.size = c.item_size})

\* C38: an audit submitted for a selected bag with the bag's actual sum as
\* current quantity changes only Items of that bag, and afterwards the bag
\* holds under each audited key the submitted new count (the sum it held
\* plus the recorded change; the same sum when the counts agreed).
C38_AuditStaysInBag ==
    LastOk("inventory_audit") =>
        /\ \A i \in pre.items : i.bag_id # LastAudit.bag_id => i \in items
        /\ \A i \in items : i.bag_id # LastAudit.bag_id => i \in pre.items
        /\ IF last.action = NoId THEN items = pre.items
           ELSE \A k \in DOMAIN LastData.changes :
                  LET change == LastData.changes[k] IN
                  BagKeySum(items, LastAudit.bag_id, change)
                    = BagKeySum(pre.items, LastAudit.bag_id, change)
                        + change.quantity_change

\* ---------------------------------------------------------------- C39
\* C39: the startup seeding run after transfers, usages, wastages and undos
\* creates no Item and changes no Item's quantity: the Items are after the
\* restart what they were before it.
C39_ReseedingKeepsStock ==
    LastOk("reseed") => items = pre.items
====
